---- MODULE Spec2Model ----
(***************************************************************************)
(* Model of the Meroshare automation server: the Express handlers of       *)
(* server/index.ts (busy flag, admission, SSE stream) and the Playwright   *)
(* automations of server/automation.ts (login, run, scan, single apply,    *)
(* bulk apply).  The portal is the environment: at every awaited step it   *)
(* chooses what the page shows and whether the step times out.             *)
(***************************************************************************)
EXTENDS Integers, Sequences, FiniteSets, TLC

\* ---------------------------------------------------------------- bounds
MaxReq == 2           \* requests the server can hold at the same time
MaxBatch == 2         \* longest "accounts" array of a bulk request
MaxItems == 2         \* longest offer list the portal shows
MaxReportCount == 2   \* most application reports the portal shows
MaxOptions == 2       \* longest <option> list of a <select>
MaxRuns == 2           \* executions in a row of a step called on its own
MaxResponses == 2      \* most responses the page receives during a capture
MaxCallOptions == 3   \* longest <option> list of a <select>, the helper called on its own

\* ------------------------------------------------------- program constants
DefaultMaxReports == 5
HttpOk == 200
HttpConflict == 409
HttpBadRequest == 400
HttpNotFound == 404

\* ------------------------------------------------------------ environment
Reqs == 1..MaxReq

\* all_credentials.json: account name -> Credential
Creds ==
  [n \in {"Dad", "Mom", "Dada"} |->
     CASE n = "Dad" -> [DP_CODE |-> "11700", username |-> "u-dad", password |-> "pw-dad", CRN |-> "crn-dad",
                        TPIN |-> "4321"]
       [] n = "Mom" -> [DP_CODE |-> "10400", username |-> "u-mom", password |-> "pw-mom", CRN |-> "crn-mom"]
       [] n = "Dada" -> [DP_CODE |-> "10400", username |-> "u-dada", password |-> "pw-dada", CRN |-> "crn-dada"]]

Accounts == DOMAIN Creds

\* Object.keys(creds): the account names in the order of the file
CredKeys == <<"Dad", "Mom", "Dada">>

\* account names the body of a single-account request may carry; "" stands
\* for a missing/empty field
BodyNames == {"Dad", "Mom", "Ghost", ""}

\* String(item.code): the participant API delivers codes as numbers
Str(code) ==
  CASE code = 11700 -> "11700"
    [] code = 10400 -> "10400"
    [] code = 1170 -> "1170"
    [] code = 13200 -> "13200"
    [] OTHER -> code

\* items of the participant list as the portal delivers them
Raw(id, code, name) == [id |-> id, code |-> code, name |-> name]

R1 == Raw(1, 11700, "CITIZENS BANK")
R2 == Raw(2, 10400, "NIMB")
R3 == Raw(3, 11700, "CITIZENS BANK 2")
R4 == Raw(4, 1170, "PREFIX CAPITAL")
R5 == Raw(5, 13200, "OTHER CAPITAL")

\* JSON array bodies the page may receive while captureDPList listens: none,
\* a list of five, a list without 11700 but with its prefix 1170, a list that
\* has the prefix ahead of the exact code, a list with 11700 twice
DPBodies ==
  { <<>>,
    <<R1, R2, R5, R5, R5>>,
    <<R2, R4, R5, R5, R5, R5>>,
    <<R4, R1, R2, R5, R5, R5>>,
    <<R2, R1, R3, R5, R5, R5>> }

\* mutant: a list of five is taken as well
CaptureDPList_FiveIsEnough(body) ==
  IF Len(body) >= 5 /\ body[1].name # "" /\ body[1].code # 0
  THEN [i \in 1..Len(body) |-> [id |-> body[i].id, code |-> Str(body[i].code), name |-> body[i].name]]
  ELSE <<>>

\* captureDPList: a JSON array of more than five items whose first item has a
\* name and a code is copied, code converted to a string
CaptureDPList(body) ==
  IF Len(body) > 5 /\ body[1].name # "" /\ body[1].code # 0
  THEN [i \in 1..Len(body) |-> [id |-> body[i].id, code |-> Str(body[i].code), name |-> body[i].name]]
  ELSE <<>>

\* clientId the page itself puts into the login payload (0: select not bound)
PagePayloadIds == {0, 3}

\* response status of the authentication endpoint
AuthStatuses == {HttpOk, 401}

\* response body of the authentication endpoint when it refuses
AuthBodies == {"Invalid password."}

\* buttons of one offer item: text and visibility
Btn(t, v) == [text |-> t, visible |-> v]

ButtonLists ==
  { <<>>, <<Btn("Apply", TRUE)>>, <<Btn("Edit", TRUE)>>,
    <<Btn("Edit", TRUE), Btn("Apply", TRUE)>>,
    <<Btn("Apply", FALSE), Btn("Edit", TRUE)>> }

OfferNames == {" Acme ", "ACME LTD"}

\* an offer item of the "Apply for Issue" tab: the texts of its four display
\* elements and its buttons
Items ==
  [name : OfferNames, subGroup : {"For General Public"}, shareType : {"IPO"},
   shareGroup : {"Ordinary Shares"}, buttons : ButtonLists]

SeqsUpTo(S, n) == UNION { [1..k -> S] : k \in 0..n }

OfferLists == SeqsUpTo(Items, MaxItems)

Row(n, sg, st, g, b) ==
  [name |-> n, subGroup |-> sg, shareType |-> st, shareGroup |-> g, buttons |-> b]

\* offer items with display elements that are absent ("": textContent rejects
\* or yields null) or blank: a complete item, each sub-field missing in turn,
\* an item with nothing but a card
ScanItems ==
  { Row(" Acme ", "For General Public", "IPO", "Ordinary Shares", <<Btn("Apply", TRUE)>>),
    Row("", "For General Public", "IPO", "Ordinary Shares", <<Btn("Edit", TRUE)>>),
    Row("ACME LTD", "  ", "IPO", "Ordinary Shares", <<Btn("Edit", TRUE)>>),
    Row("ACME LTD", "For General Public", "", "Ordinary Shares", <<Btn("Apply", TRUE)>>),
    Row(" Acme ", "For General Public", "IPO", "", <<Btn("Edit", TRUE), Btn("Apply", TRUE)>>),
    Row("", "", "", "", <<>>) }

ScanLists == SeqsUpTo(ScanItems, MaxItems)

\* companyIndex values of an apply request body
CompanyIndexes == (-1)..(MaxItems - 1)

\* companyName values of a bulk request body
CompanyNames == {"ACME"}

\* <option> elements of a <select>: trimmed text and value attribute
Options ==
  { [text |-> "Please choose one", value |-> ""],
    [text |-> "Acme Bank", value |-> "17"],
    [text |-> "Beta Bank", value |-> "null"],
    [text |-> "", value |-> "9"] }

OptionLists == SeqsUpTo(Options, MaxOptions)

\* further <option> elements: placeholders that carry a value, a second bank,
\* a bank whose value is the string "undefined"
MoreOptions ==
  { [text |-> "Please Choose", value |-> "1"],
    [text |-> "SELECT BANK", value |-> "3"],
    [text |-> "Beta Bank", value |-> "21"],
    [text |-> " Gamma Bank ", value |-> "undefined"] }

CallOptionLists == SeqsUpTo(Options \cup MoreOptions, MaxCallOptions)

\* accountPINs map of a bulk request body: an override, an empty override,
\* and (for "Dada") no entry
PinMaps == { [n \in {"Dad", "Mom"} |-> IF n = "Dad" THEN "5678" ELSE ""] }

\* "accounts" arrays of a bulk request body: distinct names, a repeated name,
\* an unknown name, the empty array
Cycle(names, k) == [i \in 1..k |-> names[((i - 1) % Len(names)) + 1]]

AccountArrays ==
  UNION { { Cycle(<<"Dada", "Mom", "Dad">>, k), Cycle(<<"Dad", "Ghost">>, k) } : k \in 0..MaxBatch }
    \cup { <<"Dad", "Dad">> }

\* ----------------------------------------------------------------- state
VARIABLES
  running,        \* index.ts: let running
  lastCode,       \* HTTP status of the most recent response
  auto,           \* per request: the automation started for it (locals, pc, page)
  stream,         \* per request: events written to its SSE response
  openSessions,   \* browsers launched and not yet closed: [req, entry] of the launch
  lastJson,       \* JSON body of the most recent response: [route, body], the
                  \* body as the sequence of its objects
  tornDown,       \* some browser session has been closed since the server started
  arg,            \* a helper function called on its own: its name and arguments
  res             \* what that call returned

vars == <<running, lastCode, auto, stream, openSessions, lastJson, tornDown, arg, res>>

\* ------------------------------------------------------------- events
Ev(t, acct, st, m) ==
  [type |-> t, account |-> acct, status |-> st, msg |-> m, index |-> 0, total |-> 0, data |-> <<>>]

\* an event whose message interpolates the values `data`
EvWith(t, acct, st, m, data) == [Ev(t, acct, st, m) EXCEPT !.data = data]

LogWith(m, data) == EvWith("log", "", "", m, data)

Log(m) == Ev("log", "", "", m)

Status(acct, st, m) == Ev("account_status", acct, st, m)

Done == Ev("done", "", "", "")

Err(m) == Ev("error", "", "", m)

\* the data object of an event as the sequence of its keys and values
Field(e, key) ==
  IF \E i \in 1..Len(e.data) : i % 2 = 1 /\ e.data[i] = key
  THEN e.data[(CHOOSE i \in 1..Len(e.data) : i % 2 = 1 /\ e.data[i] = key) + 1]
  ELSE "(absent)"

Issue(name, subGroup, shareType, shareGroup) ==
  EvWith("issue", "", "", "",
         <<"name", name, "subGroup", subGroup, "shareType", shareType, "shareGroup", shareGroup>>)

\* mutant: the loop variable is reported as it is
Report_ZeroBased(i, t) == [Ev("report", "", "", "") EXCEPT !.index = i - 1, !.total = t]

Report(i, t) == [Ev("report", "", "", "") EXCEPT !.index = i, !.total = t]

TerminalStatuses == {"already_applied", "success", "error", "login_failed"}

\* ------------------------------------------------------------- helpers
Lower(s) ==
  CASE s = "ACME" -> "acme"
    [] s = "Acme" -> "acme"
    [] s = " Acme " -> " acme "
    [] s = "ACME LTD" -> "acme ltd"
    [] s = "Apply" -> "apply"
    [] s = "Edit" -> "edit"
    [] s = "Please choose one" -> "please choose one"
    [] s = "Acme Bank" -> "acme bank"
    [] s = "Beta Bank" -> "beta bank"
    [] s = "Please Choose" -> "please choose"
    [] s = "SELECT BANK" -> "select bank"
    [] s = "Gamma Bank" -> "gamma bank"
    [] OTHER -> s

Trim(s) ==
  CASE s = " Acme " -> "Acme"
    [] s = " acme " -> "acme"
    [] s = " Gamma Bank " -> "Gamma Bank"
    [] s = "  " -> ""
    [] OTHER -> s

\* String.prototype.includes for the needles the code uses
Includes(s, needle) ==
  CASE needle = "please choose" -> s \in {"please choose one", "please choose"}
    [] needle = "select" -> s = "select bank"
    [] needle = "apply" -> s = "apply"
    [] needle = "/api/" -> s = "https://webbackend.cdsc.com.np/api/meroShare/capital/"
    [] OTHER -> s = needle

\* Array.prototype.find / findIndex: least index satisfying P, 0 when none
FirstIndex(seq, P(_)) ==
  IF \E i \in 1..Len(seq) : P(seq[i])
  THEN CHOOSE i \in 1..Len(seq) : P(seq[i]) /\ \A j \in 1..(i - 1) : ~P(seq[j])
  ELSE 0

Min(a, b) == IF a < b THEN a ELSE b

\* mutant: positions are counted from one
Nth_OneBased(items, index) == items[IF index = 0 THEN 1 ELSE index]

\* Locator.nth(index): positions are counted from zero
Nth(items, index) == items[index + 1]

\* (await el.textContent().catch(() => ''))?.trim() || fallback
TextOr(text, fallback) == IF Trim(text) = "" THEN fallback ELSE Trim(text)

\* the automation record of a request that has none
IdleAuto ==
  [kind |-> "none", pc |-> "idle", clientGone |-> FALSE, entries |-> <<>>, idx |-> 0,
   companyName |-> "", companyIndex |-> 0, appliedKitta |-> "", defaultPIN |-> "", accountPINs |-> <<>>,
   maxReports |-> 0, reportCount |-> 0, rep |-> 0,
   browser |-> 0, dpList |-> <<>>, route |-> 0, dpName |-> "", dpSearch |-> "", acts |-> <<>>, posts |-> <<>>,
   editOnly |-> FALSE, checked |-> FALSE, typedPin |-> "", surfaceRead |-> FALSE, confirmed |-> FALSE,
   endedAt |-> ""]

\* a new page: what a fresh browser/context/page starts with
FreshPage(a) ==
  [a EXCEPT !.browser = 0, !.dpList = <<>>, !.route = 0, !.dpName = "", !.dpSearch = "", !.acts = <<>>, !.posts = <<>>,
            !.editOnly = FALSE, !.checked = FALSE, !.typedPin = "", !.surfaceRead = FALSE, !.confirmed = FALSE, !.endedAt = "",
            !.reportCount = 0, !.rep = 0]

CurName(a) == a.entries[a.idx]

CurCred(a) == Creds[CurName(a)]

\* a response without a JSON body (an event stream), or no response yet
NoJson == [route |-> "", body |-> <<>>]

\* res.status(code).json({ error: ... }) of a POST route
ErrorJson(code) == [route |-> "post", body |-> <<[error |-> code]>>]

\* no helper function is called on its own
NoCall == [fn |-> ""]

Init ==
  /\ running = FALSE
  /\ lastCode = 0
  /\ auto = [r \in Reqs |-> IdleAuto]
  /\ stream = [r \in Reqs |-> <<>>]
  /\ openSessions = {}
  /\ lastJson = NoJson
  /\ tornDown = FALSE
  /\ arg = NoCall
  /\ res = NoCall

\* ------------------------------------------------------ request handlers
\* mutant: the list carries the participant code and the stored PIN
ListAccounts_WithTpin(creds) ==
  [i \in 1..Len(CredKeys) |->
     [name |-> CredKeys[i], username |-> creds[CredKeys[i]].username,
      dpCode |-> creds[CredKeys[i]].DP_CODE,
      tpin |-> IF "TPIN" \in DOMAIN creds[CredKeys[i]] THEN creds[CredKeys[i]].TPIN ELSE ""]]

\* Object.keys(creds).map((name) => ({ name, username: creds[name].username }))
ListAccounts(creds) ==
  [i \in 1..Len(CredKeys) |-> [name |-> CredKeys[i], username |-> creds[CredKeys[i]].username]]

\* app.get('/api/accounts'); the credential file is taken to be readable,
\* as the POST routes take it to be
GetAccounts ==
  /\ lastCode' = HttpOk
  /\ lastJson' = [route |-> "accounts", body |-> ListAccounts(Creds)]
  /\ UNCHANGED <<running, auto, stream, openSessions, tornDown, arg, res>>

\* mutant: the route answers with a constant
GetStatus_Stale ==
  /\ lastCode' = HttpOk
  /\ lastJson' = [route |-> "status", body |-> <<[running |-> FALSE]>>]
  /\ UNCHANGED <<running, auto, stream, openSessions, tornDown, arg, res>>

\* app.get('/api/status'): res.json({ running })
GetStatus ==
  /\ lastCode' = HttpOk
  /\ lastJson' = [route |-> "status", body |-> <<[running |-> running]>>]
  /\ UNCHANGED <<running, auto, stream, openSessions, tornDown, arg, res>>

\* a handler that answers with an HTTP error and starts nothing
Reject(r, code) ==
  /\ lastCode' = code
  /\ lastJson' = ErrorJson(code)
  /\ UNCHANGED <<running, auto, stream, openSessions, tornDown, arg, res>>

\* writeHead(200), running = true, and the automation up to its first await
Admit(r, a, evs) ==
  /\ lastCode' = HttpOk
  /\ running' = TRUE
  /\ auto' = [auto EXCEPT ![r] = a]
  /\ stream' = [stream EXCEPT ![r] = evs]
  /\ lastJson' = NoJson
  /\ UNCHANGED <<openSessions, tornDown, arg, res>>

\* a request arrives: it takes the first request slot that holds no automation
Arrives(r) ==
  /\ auto[r].pc = "idle"
  /\ \A q \in 1..(r - 1) : auto[q].pc # "idle"

\* the single-account automations start with a log and chromium.launch
StartSingle(kind, account) ==
  [IdleAuto EXCEPT !.kind = kind, !.pc = "launch", !.entries = <<account>>, !.idx = 1]

\* app.post('/api/run')
PostRun(r) ==
  /\ Arrives(r)
  /\ IF running THEN Reject(r, HttpConflict) ELSE
     \E account \in BodyNames, maxReports \in {0, 1, DefaultMaxReports} :
       IF account = "" THEN Reject(r, HttpBadRequest)
       ELSE IF account \notin Accounts THEN Reject(r, HttpNotFound)
       ELSE Admit(r, [StartSingle("run", account) EXCEPT !.maxReports = maxReports],
                  <<LogWith("Starting automation", <<account>>)>>)

\* mutant: the handler does not look at the busy flag
PostScan_NoBusyCheck(r) ==
  /\ Arrives(r)
  /\ \E account \in BodyNames :
       IF account = "" THEN Reject(r, HttpBadRequest)
       ELSE IF account \notin Accounts THEN Reject(r, HttpNotFound)
       ELSE Admit(r, StartSingle("scan", account), <<LogWith("Scanning for open issues", <<account>>)>>)

\* request bodies of POST /api/scan
ScanBodies == [account : BodyNames]

\* the handler of POST /api/scan on the body `body`
ScanHandler(r, body) ==
  IF running THEN Reject(r, HttpConflict)
  ELSE IF body.account = "" THEN Reject(r, HttpBadRequest)
  ELSE IF body.account \notin Accounts THEN Reject(r, HttpNotFound)
  ELSE Admit(r, StartSingle("scan", body.account),
             <<LogWith("Scanning for open issues", <<body.account>>)>>)

\* the bodies that make a handler behave differently: a busy server answers
\* before it reads the body
Distinct(bodies) == IF running THEN {CHOOSE body \in bodies : TRUE} ELSE bodies

\* app.post('/api/scan')
PostScan(r) ==
  /\ Arrives(r)
  /\ \E body \in Distinct(ScanBodies) : ScanHandler(r, body)

\* request bodies of POST /api/apply (hasIndex: companyIndex is present)
ApplyBodies ==
  [account : BodyNames, hasIndex : BOOLEAN, companyIndex : CompanyIndexes,
   appliedKitta : {"", "10"}, transactionPIN : {"", "1234"}]

\* the handler of POST /api/apply on the body `body`
ApplyHandler(r, body) ==
  IF running THEN Reject(r, HttpConflict)
  ELSE IF body.account = "" THEN Reject(r, HttpBadRequest)
  ELSE IF ~body.hasIndex THEN Reject(r, HttpBadRequest)
  ELSE IF body.appliedKitta = "" THEN Reject(r, HttpBadRequest)
  ELSE IF body.transactionPIN = "" THEN Reject(r, HttpBadRequest)
  ELSE IF body.account \notin Accounts THEN Reject(r, HttpNotFound)
  ELSE Admit(r, [StartSingle("apply", body.account) EXCEPT
                   !.companyIndex = body.companyIndex, !.appliedKitta = body.appliedKitta,
                   !.defaultPIN = body.transactionPIN],
             <<LogWith("Starting IPO application", <<body.account>>)>>)

\* app.post('/api/apply')
PostApply(r) ==
  /\ Arrives(r)
  /\ \E body \in Distinct(ApplyBodies) : ApplyHandler(r, body)

\* request bodies of POST /api/bulk-apply
BulkBodies ==
  [accounts : AccountArrays, companyName : CompanyNames \cup {""}, appliedKitta : {"", "10"},
   transactionPIN : {"", "1234"}, accountPINs : PinMaps]

\* mutant: only the first name is looked up
AllKnown_FirstOnly(accountNames) == accountNames[1] \in Accounts

\* for (const name of accountNames) { const cred = creds[name]; if (!cred) ... }
AllKnown(accountNames) == \A i \in 1..Len(accountNames) : accountNames[i] \in Accounts

\* the handler of POST /api/bulk-apply on the body `body`; bulkApplyForIPO
\* runs up to the first launch: the start log and the first entry's `running`
\* status are already written
BulkApplyHandler(r, body) ==
  LET accountNames == body.accounts IN
  IF running THEN Reject(r, HttpConflict)
  ELSE IF Len(accountNames) = 0 THEN Reject(r, HttpBadRequest)
  ELSE IF body.companyName = "" THEN Reject(r, HttpBadRequest)
  ELSE IF body.appliedKitta = "" THEN Reject(r, HttpBadRequest)
  ELSE IF body.transactionPIN = "" THEN Reject(r, HttpBadRequest)
  ELSE IF ~AllKnown(accountNames) THEN Reject(r, HttpNotFound)
  ELSE Admit(r, [IdleAuto EXCEPT !.kind = "bulk", !.pc = "launch",
                   !.entries = accountNames, !.idx = 1, !.companyName = body.companyName,
                   !.appliedKitta = body.appliedKitta,
                   !.defaultPIN = body.transactionPIN, !.accountPINs = body.accountPINs],
             <<LogWith("Bulk apply starting", <<body.companyName, ToString(Len(accountNames))>>),
               Status(accountNames[1], "running", "Logging in...")>>)

\* app.post('/api/bulk-apply')
PostBulkApply(r) ==
  /\ Arrives(r)
  /\ \E body \in Distinct(BulkBodies) : BulkApplyHandler(r, body)

\* mutant: the close handler gives the server up for the next request
Disconnect_Abort(r) ==
  /\ auto[r].pc # "idle"
  /\ ~auto[r].clientGone
  /\ running' = FALSE
  /\ auto' = [auto EXCEPT ![r].clientGone = TRUE]
  /\ UNCHANGED <<lastCode, stream, openSessions, lastJson, tornDown, arg, res>>

\* req.on('close'): the client of an admitted request goes away; the handler
\* only notes it (later res.write calls go to a closed socket)
Disconnect(r) ==
  /\ auto[r].pc # "idle"
  /\ ~auto[r].clientGone
  /\ auto' = [auto EXCEPT ![r].clientGone = TRUE]
  /\ UNCHANGED <<running, lastCode, stream, openSessions, lastJson, tornDown, arg, res>>

\* ------------------------------------------------ control flow of an attempt
\* mutant: the next iteration is announced under the name of the entry that
\* has just ended
AfterAttempt_SameEntry(a, s) ==
  IF a.kind = "bulk"
  THEN IF a.idx < Len(a.entries)
       THEN [auto |-> [FreshPage(a) EXCEPT !.idx = a.idx + 1, !.pc = "launch"],
             stream |-> Append(s, Status(a.entries[a.idx], "running", "Logging in..."))]
       ELSE [auto |-> [FreshPage(a) EXCEPT !.pc = "returned"], stream |-> Append(s, Done)]
  ELSE [auto |-> [FreshPage(a) EXCEPT !.pc = "returned"], stream |-> s]

\* what follows the finally block: the next loop iteration of a bulk batch
\* (running status, then launch), the trailing `done` of a batch, or return.
\* The page of the attempt is gone with its browser.
AfterAttempt(a, s) ==
  IF a.kind = "bulk"
  THEN IF a.idx < Len(a.entries)
       THEN [auto |-> [FreshPage(a) EXCEPT !.idx = a.idx + 1, !.pc = "launch"],
             stream |-> Append(s, Status(a.entries[a.idx + 1], "running", "Logging in..."))]
       ELSE [auto |-> [FreshPage(a) EXCEPT !.pc = "returned"], stream |-> Append(s, Done)]
  ELSE [auto |-> [FreshPage(a) EXCEPT !.pc = "returned"], stream |-> s]

\* mutant: the finally block does not close the browser
Unwind_NoClose(a, s) == AfterAttempt([a EXCEPT !.endedAt = a.pc], s)

\* control leaves the try block at statement a.pc:
\* finally { if (browser) await browser.close() }
Unwind(a, s) ==
  IF a.browser # 0
  THEN [auto |-> [a EXCEPT !.pc = "closing", !.endedAt = a.pc], stream |-> s]
  ELSE AfterAttempt([a EXCEPT !.endedAt = a.pc], s)

\* an Error whose message interpolates the values `data`
Error(m, data) == [msg |-> m, data |-> data]

\* any other thrown error (a timeout, a missing element)
Thrown == Error("thrown", <<>>)

\* mutant: the error is reported but the browser is closed on success only
Catch_NoFinally(a, s, err) ==
  IF a.kind = "bulk"
  THEN AfterAttempt(a, Append(s, EvWith("account_status", CurName(a), "error", err.msg, err.data)))
  ELSE AfterAttempt(a, Append(s, EvWith("error", "", "", err.msg, err.data)))

\* outer catch: a bulk attempt records `error` for its account, a
\* single-account flow emits `error`, both with err.message
Catch(a, s, err) ==
  IF a.kind = "bulk"
  THEN Unwind(a, Append(s, EvWith("account_status", CurName(a), "error", err.msg, err.data)))
  ELSE Unwind(a, Append(s, EvWith("error", "", "", err.msg, err.data)))

\* mutant: the inner catch leaves the loop instead of continuing
LoginCatch_Break(a, s, err) ==
  LET b == [a EXCEPT !.dpList = <<>>] IN
  IF a.kind = "bulk"
  THEN LET x == Unwind(b, Append(s, EvWith("account_status", CurName(a), "login_failed",
                                           "Login failed", <<err.msg>> \o err.data)))
       IN [auto |-> [x.auto EXCEPT !.idx = Len(a.entries)], stream |-> x.stream]
  ELSE Catch(b, s, err)

\* a throw inside loginToMeroshare ends the call (its dpList is gone); bulk
\* has an inner catch (login_failed with the error's message, continue)
LoginCatch(a, s, err) ==
  LET b == [a EXCEPT !.dpList = <<>>] IN
  IF a.kind = "bulk"
  THEN Unwind(b, Append(s, EvWith("account_status", CurName(a), "login_failed",
                                  "Login failed", <<err.msg>> \o err.data)))
  ELSE Catch(b, s, err)

\* mutant: the try block ends without reporting
Finish_Silent(a, s) == Unwind(a, s)

\* the last statement of the try block of a single-account flow:
\* onEvent({ type: 'done' }), then finally
Finish(a, s) == Unwind(a, Append(s, Done))

\* mutant: the batch reports a success the way the single apply does
Continue_ApplySuccess(a, s, st, m) ==
  IF st = "success"
  THEN Unwind(a, Append(s, Ev("apply_success", "", "", m)))
  ELSE Unwind(a, Append(s, Status(CurName(a), st, m)))

\* an early `continue` of a bulk attempt with a terminal status
Continue(a, s, st, m) == Unwind(a, Append(s, Status(CurName(a), st, m)))

Set(r, x) ==
  /\ auto' = [auto EXCEPT ![r] = x.auto]
  /\ stream' = [stream EXCEPT ![r] = x.stream]

Goto(a, s, pc) == [auto |-> [a EXCEPT !.pc = pc], stream |-> s]

\* ----------------------------------------------------------- automation
\* mutant: once a session has been closed, the closed browser is used again
Launch_Reuse(r) ==
  LET a == auto[r] s == stream[r] IN
  /\ a.pc = "launch"
  /\ UNCHANGED <<running, lastCode, lastJson, tornDown, arg, res>>
  /\ \E outcome \in {"launchFails", "contextFails", "ok"} :
       IF outcome = "launchFails"
       THEN /\ Set(r, Catch(a, s, Thrown))
            /\ UNCHANGED openSessions
       ELSE /\ openSessions' = IF tornDown THEN openSessions
                               ELSE openSessions \cup {[req |-> r, entry |-> a.idx]}
            /\ LET b == [a EXCEPT !.browser = IF tornDown THEN 0 ELSE a.idx] IN
               IF outcome = "contextFails"
               THEN Set(r, Catch(b, s, Thrown))
               ELSE Set(r, Goto(b, s, "login1"))

\* browser = await chromium.launch(); newContext(); newPage()
Launch(r) ==
  LET a == auto[r] s == stream[r] IN
  /\ a.pc = "launch"
  /\ UNCHANGED <<running, lastCode, lastJson, tornDown, arg, res>>
  /\ \E outcome \in {"launchFails", "contextFails", "ok"} :
       IF outcome = "launchFails"
       THEN /\ Set(r, Catch(a, s, Thrown))
            /\ UNCHANGED openSessions
       ELSE /\ openSessions' = openSessions \cup {[req |-> r, entry |-> a.idx]}
            /\ LET b == [a EXCEPT !.browser = a.idx] IN
               IF outcome = "contextFails"
               THEN Set(r, Catch(b, s, Thrown))
               ELSE Set(r, Goto(b, s, "login1"))

\* mutant: the handler forwards the payload untouched
Intercept_Forward(targetId, p) == p

\* the page.route handler: what leaves for a POST the page sends with clientId p
Intercept(targetId, p) == IF p = 0 THEN targetId ELSE p

\* mutant: the login line echoes the password
LoginLog_Password(cred, targetDP) == LogWith("Logging in", <<cred.username, cred.password, targetDP.name>>)

\* emit log `Logging in as "${cred.username}" with DP "${targetDP.name}" ...`
LoginLog(cred, targetDP) == LogWith("Logging in", <<cred.username, targetDP.name>>)

\* dpList.slice(0, 10).map(dp => `${dp.code} (${dp.name})`)
AvailableCodes(dpList) ==
  [i \in 1..Min(Len(dpList), 10) |-> <<dpList[i].code, dpList[i].name>>]

\* new Error(`DP with code ${dpCode} not found. Available (first 10): ...`)
DPNotFound(dpList, dpCode) == Error("DP not found", <<dpCode, AvailableCodes(dpList)>>)

\* String.prototype.includes on participant codes
CodeIncludes(code, needle) ==
  \/ code = needle
  \/ code = "11700" /\ needle = "1170"

\* mutant: the entry is found by a substring match of the two codes
ResolveDP_Substring(dpList, dpCode) ==
  FirstIndex(dpList, LAMBDA dp : CodeIncludes(dp.code, dpCode) \/ CodeIncludes(dpCode, dp.code))

\* resp.url() of what the page loads while it reloads: the participant
\* endpoint and a static file
ResponseUrls ==
  {"https://webbackend.cdsc.com.np/api/meroShare/capital/", "https://meroshare.cdsc.com.np/assets/i18n/en.json"}

\* what await resp.json() gives: it throws, or it gives an object, or an array
NotJson == [json |-> FALSE, array |-> FALSE, items |-> <<>>]
JsonObject == [json |-> TRUE, array |-> FALSE, items |-> <<>>]
JsonArray(items) == [json |-> TRUE, array |-> TRUE, items |-> items]

\* arrays whose first item has no name, or no code
NamelessFirst == <<Raw(6, 10400, ""), R1, R2, R5, R5, R5>>
CodelessFirst == <<Raw(7, 0, "NO CODE"), R1, R2, R5, R5, R5>>

ResponseBodies ==
  {NotJson, JsonObject} \cup {JsonArray(items) : items \in DPBodies \cup {NamelessFirst, CodelessFirst}}

\* the responses the handler of captureDPList may see
Responses == [url : ResponseUrls, method : {"GET", "POST"}, body : ResponseBodies]

\* the `response` handler of captureDPList: what dpList holds after it has
\* run for `resp`
Handler(dpList, resp) ==
  IF Includes(resp.url, "/api/") /\ resp.method = "GET"
  THEN IF resp.body.json /\ resp.body.array
       THEN dpList \o CaptureDPList(resp.body.items)
       ELSE dpList
  ELSE dpList

\* dpList when captureDPList returns, the handler having run for `responses`
\* in this order
RECURSIVE DPListAfter(_, _)
DPListAfter(dpList, responses) ==
  IF responses = <<>> THEN dpList
  ELSE DPListAfter(Handler(dpList, Head(responses)), Tail(responses))

\* a GET response of the participant endpoint
ApiGet(items) ==
  [url |-> "https://webbackend.cdsc.com.np/api/meroShare/capital/", method |-> "GET",
   body |-> JsonArray(items)]

\* the lists the automations meet: one response of the participant endpoint
CapturedLists == {DPListAfter(<<>>, <<ApiGet(body)>>) : body \in DPBodies}

\* dpList.find((dp) => dp.code === dpCode): position of the entry, 0 when none
ResolveDP(dpList, dpCode) ==
  FirstIndex(dpList, LAMBDA dp : dp.code = dpCode)

\* mutant: an unresolved participant does not stop the login
LoginResolve_Lenient(r) ==
  LET a == auto[r] s == stream[r] IN
  /\ a.pc = "login1"
  /\ UNCHANGED <<running, lastCode, openSessions, lastJson, tornDown, arg, res>>
  /\ \/ Set(r, LoginCatch(a, s, Thrown))
     \/ \E dpList \in CapturedLists :
          LET dpCode == CurCred(a).DP_CODE
              s2 == s \o <<Log("On login page"), LogWith("Captured DPs", <<ToString(Len(dpList)), dpCode>>)>>
              k == ResolveDP(dpList, dpCode)
          IN IF k = 0
             THEN Set(r, Goto([a EXCEPT !.dpList = dpList], s2, "login2"))
             ELSE Set(r, Goto([a EXCEPT !.dpList = dpList, !.route = dpList[k].id, !.dpName = dpList[k].name],
                              s2, "login2"))

\* loginToMeroshare once captureDPList has returned dpList: dpList.find, the
\* not-found error, page.route
LoginWith(r, dpList) ==
  LET a == auto[r]
      s == stream[r]
      dpCode == CurCred(a).DP_CODE
      s2 == s \o <<Log("On login page"), LogWith("Captured DPs", <<ToString(Len(dpList)), dpCode>>)>>
      k == ResolveDP(dpList, dpCode)
  IN IF k = 0
     THEN Set(r, LoginCatch(a, s2, DPNotFound(dpList, dpCode)))
     ELSE Set(r, Goto([a EXCEPT !.dpList = dpList, !.route = dpList[k].id, !.dpName = dpList[k].name],
                      s2 \o <<LogWith("DP resolved", <<dpList[k].name, dpList[k].code, ToString(dpList[k].id)>>),
                              LoginLog(CurCred(a), dpList[k])>>,
                      "login2"))

\* loginToMeroshare, first part: goto, captureDPList, dpList.find, page.route
LoginResolve(r) ==
  LET a == auto[r] s == stream[r] IN
  /\ a.pc = "login1"
  /\ UNCHANGED <<running, lastCode, openSessions, lastJson, tornDown, arg, res>>
  /\ \/ Set(r, LoginCatch(a, s, Thrown))                                  \* goto / waitForURL fails
     \/ Set(r, LoginCatch(a, Append(s, Log("On login page")), Thrown))    \* reload fails
     \/ \E dpList \in CapturedLists : LoginWith(r, dpList)

\* the sequences of responses a reload may bring
ResponseLists == SeqsUpTo(Responses, MaxResponses)

\* captureDPList and the lookup that follows it, on their own: the page
\* receives arg.responses, the handler (which awaits each body) finishes them
\* in some order, and the list is searched for the code of the account
CallCaptureDPList ==
  /\ arg.fn = "captureDPList"
  /\ res.fn = ""
  /\ auto[1].pc = "login1"
  /\ \E order \in Permutations(1..Len(arg.responses)) :
       LET dpList == DPListAfter(<<>>, [k \in 1..Len(arg.responses) |-> arg.responses[order[k]]])
       IN /\ LoginWith(1, dpList)
          /\ res' = [fn |-> arg.fn, dpList |-> dpList, order |-> order]
  /\ UNCHANGED <<running, lastCode, openSessions, lastJson, tornDown, arg>>

\* mutant: the dropdown is searched for the participant code
DPSearchText_Code(targetDP) == targetDP.code

\* selectDPInDropdown(page, targetDP.name): the text the <option>s are
\* filtered by
DPSearchText(targetDP) == targetDP.name

\* loginToMeroshare, second part: selectDPInDropdown, username, password
LoginFill(r) ==
  LET a == auto[r] s == stream[r] IN
  /\ a.pc = "login2"
  /\ UNCHANGED <<running, lastCode, openSessions, lastJson, tornDown, arg, res>>
  /\ \E done \in 0..3 :
       LET steps == <<"selectDP", "username", "password">>
           targetDP == [id |-> a.route, code |-> CurCred(a).DP_CODE, name |-> a.dpName]
           b == [a EXCEPT !.acts = a.acts \o SubSeq(steps, 1, done),
                          !.dpSearch = DPSearchText(targetDP)]
       IN IF done < 3 THEN Set(r, LoginCatch(b, s, Thrown)) ELSE Set(r, Goto(b, s, "login3"))

\* await loginResponse.text().catch(() => '(unreadable)')
ReadBody(body, readable) == IF readable THEN body ELSE "(unreadable)"

\* mutant: the failure names the status only
LoginRejected_StatusOnly(status, body) == Error("Login failed with HTTP", <<ToString(status)>>)

\* new Error(`Login failed with HTTP ${status}: ${body}`)
LoginRejected(status, body) == Error("Login failed with HTTP", <<ToString(status), body>>)

\* loginToMeroshare, last part: click Login, the intercepted POST, the
\* response status, the wait for the dashboard
LoginSubmit(r) ==
  LET a == auto[r] s == stream[r] IN
  /\ a.pc = "login3"
  /\ UNCHANGED <<running, lastCode, openSessions, lastJson, tornDown, arg, res>>
  /\ \/ Set(r, LoginCatch(a, s, Thrown))                                   \* no Login button
     \/ LET b == [a EXCEPT !.acts = Append(a.acts, "clickLogin")] IN
        \/ Set(r, LoginCatch(b, s, Thrown))                                \* no response in time
        \/ \E p \in PagePayloadIds, st \in AuthStatuses, body \in AuthBodies,
              readable \in BOOLEAN, dashboard \in BOOLEAN :
             LET ok == st = HttpOk
                 text == IF ok THEN "" ELSE ReadBody(body, readable)
                 c == [b EXCEPT !.posts = Append(b.posts,
                         [sent |-> p, out |-> Intercept(b.route, p), status |-> st,
                          body |-> text, dashboard |-> ok /\ dashboard])] IN
             IF ~ok
             THEN Set(r, LoginCatch(c, s, LoginRejected(st, text)))
             ELSE IF ~dashboard
             THEN Set(r, LoginCatch(c, s, Thrown))                         \* waitForURL times out
             ELSE Set(r, Goto([c EXCEPT !.dpList = <<>>], Append(s, Log("Logged in successfully")), "navigate"))

\* click the My ASBA link and wait for the page; the login page and the
\* requests it sent are left behind
Navigate(r) ==
  LET a == [auto[r] EXCEPT !.posts = <<>>] s == stream[r] IN
  /\ a.pc = "navigate"
  /\ UNCHANGED <<running, lastCode, openSessions, lastJson, tornDown, arg, res>>
  /\ \/ Set(r, Catch(a, s, Thrown))
     \/ IF a.kind = "bulk" THEN Set(r, Goto(a, s, "locate"))
        ELSE Set(r, Goto(a, Append(s, Log("Navigated to My ASBA")),
                         IF a.kind = "apply" THEN "locate" ELSE "issues"))

\* mutant: an item whose name cannot be read is skipped
IssueEvents_SkipUnnamed(offers) ==
  LET named == SelectSeq(offers, LAMBDA it : Trim(it.name) # "")
  IN [i \in 1..Len(named) |->
        Issue(TextOr(named[i].name, "N/A"), TextOr(named[i].subGroup, "N/A"),
              TextOr(named[i].shareType, "N/A"), TextOr(named[i].shareGroup, "N/A"))]

\* the scrape loop: one `issue` event per listed item, each field read with
\* (await el.textContent().catch(() => ''))?.trim() || 'N/A'
IssueEvents(offers) ==
  [i \in 1..Len(offers) |->
     Issue(TextOr(offers[i].name, "N/A"), TextOr(offers[i].subGroup, "N/A"),
           TextOr(offers[i].shareType, "N/A"), TextOr(offers[i].shareGroup, "N/A"))]

\* the "Apply for Issue" scrape on the list `offers`
IssuesOn(r, offers) ==
  LET a == auto[r] s == stream[r]
      s2 == IF Len(offers) > 0
            THEN Append(s, LogWith("Found open issues", <<ToString(Len(offers))>>)) \o IssueEvents(offers)
            ELSE Append(s, Log("No open issues"))
  IN IF a.kind = "scan"
     THEN Set(r, Finish(a, s2))
     ELSE Set(r, Goto(a, s2, "reportTab"))

\* the "Apply for Issue" scrape of runMeroshareAutomation and scanForIssues
Issues(r) ==
  LET a == auto[r] s == stream[r] IN
  /\ a.pc = "issues"
  /\ UNCHANGED <<running, lastCode, openSessions, lastJson, tornDown, arg, res>>
  /\ \/ Set(r, Catch(a, s, Thrown))
     \/ \E offers \in OfferLists : IssuesOn(r, offers)

\* the scrape of a scan on its own, over offer lists whose items lack some of
\* their display elements
CallIssues ==
  /\ arg.fn = "issues"
  /\ res.fn = ""
  /\ auto[1].kind = "scan"
  /\ auto[1].pc = "issues"
  /\ IssuesOn(1, arg.offers)
  /\ res' = [fn |-> arg.fn, threw |-> FALSE, index |-> 0, text |-> ""]
  /\ UNCHANGED <<running, lastCode, openSessions, lastJson, tornDown, arg>>

\* runMeroshareAutomation: switch to the Application Report tab, count, first pass
ReportTab(r) ==
  LET a == auto[r] s == stream[r] IN
  /\ a.pc = "reportTab"
  /\ UNCHANGED <<running, lastCode, openSessions, lastJson, tornDown, arg, res>>
  /\ \/ Set(r, Catch(a, s, Thrown))
     \/ \E reportCount \in 1..MaxReportCount :
          LET processCount == Min(reportCount, a.maxReports)
              b == [a EXCEPT !.reportCount = reportCount, !.rep = 0]
              s2 == Append(s, LogWith("Application Report records",
                                      <<ToString(reportCount), ToString(processCount)>>))
          IN IF processCount > 0
             THEN Set(r, Goto(b, s2, "report"))
             ELSE Set(r, Finish(b, s2))

\* runMeroshareAutomation: one iteration of the second pass
ReportStep(r) ==
  LET a == auto[r] s == stream[r]
      processCount == Min(a.reportCount, a.maxReports)
      s2 == Append(s, Report(a.rep + 1, a.reportCount))
      b == [a EXCEPT !.rep = a.rep + 1]
  IN
  /\ a.pc = "report"
  /\ UNCHANGED <<running, lastCode, openSessions, lastJson, tornDown, arg, res>>
  /\ \/ Set(r, Catch(a, s, Thrown))                 \* opening the record fails
     \/ Set(r, Catch(b, s2, Thrown))                \* navigating back fails
     \/ IF b.rep < processCount
        THEN Set(r, Goto(b, s2, "report"))
        ELSE Set(r, Finish(b, s2))

\* bulk: a visible button whose trimmed lower-case text is exactly t
HasVisible(buttons, t) ==
  \E i \in 1..Len(buttons) : buttons[i].visible /\ Lower(Trim(buttons[i].text)) = t

\* the item offers Edit and does not offer Apply
EditOnly(buttons) == HasVisible(buttons, "edit") /\ ~HasVisible(buttons, "apply")

\* applyForIPO on the list `offers`: index checks, then click Apply / the
\* first visible action button / the item itself
LocateAt(r, offers) ==
  LET a == auto[r] s == stream[r] itemCount == Len(offers) IN
  IF itemCount = 0
  THEN Set(r, Catch(a, s, Error("No open issues found in tab", <<>>)))
  ELSE IF a.companyIndex < 0 \/ a.companyIndex >= itemCount
  THEN Set(r, Catch(a, s, Error("Invalid company index",
                                <<ToString(a.companyIndex), ToString(itemCount)>>)))
  ELSE LET targetItem == Nth(offers, a.companyIndex)
           buttons == targetItem.buttons
           companyName == TextOr(targetItem.name, "Unknown")
           s2 == Append(s, LogWith("Applying for", <<companyName>>))
           \* companyIndex is not read again
           b == [a EXCEPT !.editOnly = EditOnly(buttons), !.companyName = companyName,
                          !.companyIndex = 0]
           k == FirstIndex(buttons, LAMBDA x : Includes(Lower(x.text), "apply"))
           v == FirstIndex(buttons, LAMBDA x : x.visible)
           act == IF k > 0 THEN "clickApply" ELSE IF v > 0 THEN "clickAction" ELSE "clickItem"
       IN \/ Set(r, Catch(b, s2, Thrown))
          \/ /\ k > 0 => buttons[k].visible
             /\ Set(r, Goto([b EXCEPT !.acts = Append(b.acts, act)],
                            Append(s2, Log("Apply form loaded")), "bank"))

\* applyForIPO: count the listed items, then locate the one at companyIndex
LocateByIndex(r) ==
  LET a == auto[r] s == stream[r] IN
  /\ a.pc = "locate"
  /\ a.kind = "apply"
  /\ UNCHANGED <<running, lastCode, openSessions, lastJson, tornDown, arg, res>>
  /\ \/ Set(r, Catch(a, s, Thrown))
     \/ \E offers \in OfferLists : LocateAt(r, offers)

\* the locate step of a single apply on its own, over every offer list the
\* portal may show and every companyIndex of a request
CallLocateByIndex ==
  /\ arg.fn = "locateByIndex"
  /\ res.fn = ""
  /\ auto[1].kind = "apply"
  /\ auto[1].pc = "locate"
  /\ LocateAt(1, arg.offers)
  /\ res' = [fn |-> arg.fn, threw |-> FALSE, index |-> 0, text |-> ""]
  /\ UNCHANGED <<running, lastCode, openSessions, lastJson, tornDown, arg>>

\* mutant: a name that starts with the target matches as well
FindByName_Prefix(offers, targetCompanyName) ==
  LET targetIndex == FirstIndex(offers, LAMBDA it :
                       \/ Lower(Trim(it.name)) = Lower(targetCompanyName)
                       \/ Lower(Trim(it.name)) = Lower(targetCompanyName) \o " ltd")
  IN [itemCount |-> Len(offers), targetIndex |-> targetIndex,
      buttons |-> IF targetIndex = 0 THEN <<>> ELSE offers[targetIndex].buttons]

\* bulk: the name loop over the listed items: item count, position of the
\* first item whose trimmed name equals the target case-insensitively (0 when
\* none), and the buttons of that item
FindByName(offers, targetCompanyName) ==
  LET targetIndex == FirstIndex(offers, LAMBDA it : Lower(Trim(it.name)) = Lower(targetCompanyName))
  IN [itemCount |-> Len(offers), targetIndex |-> targetIndex,
      buttons |-> IF targetIndex = 0 THEN <<>> ELSE offers[targetIndex].buttons]

\* what the name loop finds, over every offer list the portal may show
TargetsByName == [n \in CompanyNames |-> {FindByName(offers, n) : offers \in OfferLists}]

\* bulkApplyForIPO, once the name loop has run: the two `error` exits, then
\* Apply vs Edit on the item found, then the click on its Apply button
LocateFound(r, found) ==
  LET a == auto[r] s == stream[r] IN
  IF found.itemCount = 0
  THEN Set(r, Continue(a, s, "error", "No open issues found"))
  ELSE IF found.targetIndex = 0
  THEN Set(r, Continue(a, s, "error", "IPO not found"))
  ELSE LET buttons == found.buttons
           hasEdit == HasVisible(buttons, "edit")
           hasApply == HasVisible(buttons, "apply")
           b == [a EXCEPT !.editOnly = EditOnly(buttons)]
       IN IF hasEdit /\ ~hasApply
          THEN Set(r, Continue(b, s, "already_applied", "Already applied"))
          ELSE IF ~hasApply
          THEN Set(r, Continue(b, s, "error", "No Apply button found"))
          ELSE LET s2 == Append(s, Status(CurName(a), "running", "Filling application form..."))
               IN \/ Set(r, Catch(b, s2, Thrown))
                  \/ Set(r, Goto([b EXCEPT !.acts = Append(b.acts, "clickApply")], s2, "bank"))

\* bulkApplyForIPO: find the offer by name, detect Apply vs Edit, click Apply
LocateByName(r) ==
  LET a == auto[r] s == stream[r] IN
  /\ a.pc = "locate"
  /\ a.kind = "bulk"
  /\ UNCHANGED <<running, lastCode, openSessions, lastJson, tornDown, arg, res>>
  /\ \/ Set(r, Catch(a, s, Thrown))
     \/ \E found \in TargetsByName[a.companyName] : LocateFound(r, found)

\* the name lookup of a batch entry on its own, over every offer list the
\* portal may show to a logged-in account
CallLocateByName ==
  /\ arg.fn = "locateByName"
  /\ res.fn = ""
  /\ auto[1].kind = "bulk"
  /\ auto[1].pc = "locate"
  /\ LET found == FindByName(arg.offers, auto[1].companyName)
     IN /\ LocateFound(1, found)
        /\ res' = [fn |-> arg.fn, threw |-> FALSE, index |-> found.targetIndex, text |-> ""]
  /\ UNCHANGED <<running, lastCode, openSessions, lastJson, tornDown, arg>>

\* mutant: the value attribute is not looked at
SelectFirstRealOption_TextOnly(options) ==
  FirstIndex(options, LAMBDA o :
     /\ Trim(o.text) # ""
     /\ ~Includes(Lower(Trim(o.text)), "please choose")
     /\ ~Includes(Lower(Trim(o.text)), "select"))

\* selectFirstRealOption: index of the option selected, 0 when none is eligible
SelectFirstRealOption(options) ==
  FirstIndex(options, LAMBDA o :
     /\ Trim(o.text) # ""
     /\ ~Includes(Lower(Trim(o.text)), "please choose")
     /\ ~Includes(Lower(Trim(o.text)), "select")
     /\ o.value # ""
     /\ o.value # "null"
     /\ o.value # "undefined")

\* what selectFirstRealOption selects and returns (the trimmed text), over
\* every option list the form may show; index 0: it throws
Selections ==
  { LET k == SelectFirstRealOption(options)
    IN [index |-> k, text |-> IF k = 0 THEN "" ELSE Trim(options[k].text)] : options \in OptionLists }

\* the helper called on its own over every option list
CallSelectFirstRealOption ==
  /\ arg.fn = "selectFirstRealOption"
  /\ res.fn = ""
  /\ LET k == SelectFirstRealOption(arg.options)
     IN res' = [fn |-> arg.fn, threw |-> k = 0, index |-> k,
                text |-> IF k = 0 THEN "" ELSE Trim(arg.options[k].text)]
  /\ UNCHANGED <<running, lastCode, auto, stream, openSessions, lastJson, tornDown, arg>>

\* mutant: the per-account override is ignored
BulkPin_DefaultOnly(accountPINs, accountName, defaultPIN) == defaultPIN

\* bulk: const pin = accountPINs[accountName] || defaultPIN
BulkPin(accountPINs, accountName, defaultPIN) ==
  IF accountName \in DOMAIN accountPINs /\ accountPINs[accountName] # ""
  THEN accountPINs[accountName]
  ELSE defaultPIN

FormSteps == <<"bank", "account", "kitta", "crn", "declaration", "proceed", "pin", "final">>

\* mutant: the PIN is typed before Proceed is clicked
NextForm_PinFirst(pc) ==
  CASE pc = "declaration" -> "pin"
    [] pc = "pin" -> "proceed"
    [] pc = "proceed" -> "final"
    [] pc = "final" -> "result"
    [] OTHER -> LET i == CHOOSE j \in 1..Len(FormSteps) : FormSteps[j] = pc IN FormSteps[i + 1]

\* mutant: the final Apply click is repeated
NextForm_Retry(pc) ==
  LET i == CHOOSE j \in 1..Len(FormSteps) : FormSteps[j] = pc
  IN IF i < Len(FormSteps) THEN FormSteps[i + 1] ELSE "final"

\* the statement that follows a form step in the try block
NextForm(pc) ==
  LET i == CHOOSE j \in 1..Len(FormSteps) : FormSteps[j] = pc
  IN IF i < Len(FormSteps) THEN FormSteps[i + 1] ELSE "result"

\* applyForIPO logs after each form step, with the value it handled;
\* bulkApplyForIPO does not
StepLog(a, s, m, data) == IF a.kind = "apply" THEN Append(s, LogWith(m, data)) ELSE s

\* a click on a checkbox toggles it
Click(checked) == ~checked

\* mutant: the box is clicked without looking at it
Declaration_AlwaysClick(isChecked) == [checked |-> Click(isChecked), clicked |-> TRUE]

\* if (!isChecked) await disclaimer.click({ force: true }): the state of the
\* box afterwards and whether it was clicked
Declaration(isChecked) ==
  IF ~isChecked
  THEN [checked |-> Click(isChecked), clicked |-> TRUE]
  ELSE [checked |-> isChecked, clicked |-> FALSE]

\* the declaration step on its own, executed up to MaxRuns times in a row on
\* a box that starts checked or unchecked
CallDeclaration ==
  /\ arg.fn = "declaration"
  /\ LET first == res.fn = ""
         runs == IF first THEN 0 ELSE res.runs
         d == Declaration(IF first THEN arg.isChecked ELSE res.checked)
     IN /\ runs < MaxRuns
        /\ res' = [fn |-> arg.fn, checked |-> d.checked, runs |-> runs + 1,
                   clicks |-> (IF first THEN 0 ELSE res.clicks) + (IF d.clicked THEN 1 ELSE 0)]
  /\ UNCHANGED <<running, lastCode, auto, stream, openSessions, lastJson, tornDown, arg>>

\* one step of the application form, shared by applyForIPO and bulkApplyForIPO
FormStep(r) ==
  LET a == auto[r] s == stream[r]
      did == [a EXCEPT !.acts = Append(a.acts, a.pc)]
  IN
  /\ a.pc \in {FormSteps[i] : i \in 1..Len(FormSteps)}
  /\ UNCHANGED <<running, lastCode, openSessions, lastJson, tornDown, arg, res>>
  /\ \/ Set(r, Catch(a, s, Thrown))                          \* the control never shows up
     \/ /\ a.pc \in {"bank", "account"}
        /\ \E selected \in Selections, extraLog \in BOOLEAN :
             IF selected.index = 0
             THEN Set(r, Catch(a, s, Thrown))
             ELSE LET s2 == StepLog(a, s, a.pc, <<selected.text>>)
                      s3 == IF a.pc = "account" /\ extraLog
                            THEN StepLog(a, s2, "Branch", <<"(auto-populated)">>) ELSE s2
                  IN Set(r, Goto(did, s3, NextForm(a.pc)))
     \/ /\ a.pc = "kitta"
        /\ \E extraLog \in BOOLEAN :
             LET s2 == StepLog(a, s, a.pc, <<a.appliedKitta>>)
                 s3 == IF extraLog THEN StepLog(a, s2, "Amount", <<"(auto-calculated)">>) ELSE s2
             IN Set(r, Goto(did, s3, NextForm(a.pc)))
     \/ /\ a.pc = "crn"
        /\ Set(r, Goto(did, StepLog(a, s, a.pc, <<CurCred(a).CRN>>), NextForm(a.pc)))
     \/ /\ a.pc \in {"proceed", "final"}
        /\ Set(r, Goto(did, StepLog(a, s, a.pc, <<>>), NextForm(a.pc)))
     \/ /\ a.pc = "declaration"
        /\ \E isChecked \in BOOLEAN :
             LET d == Declaration(isChecked)
                 b == IF d.clicked THEN did ELSE a
             IN Set(r, Goto([b EXCEPT !.checked = d.checked], StepLog(a, s, a.pc, <<>>), NextForm(a.pc)))
     \/ /\ a.pc = "pin"
        /\ LET pin == IF a.kind = "bulk"
                      THEN BulkPin(a.accountPINs, CurName(a), a.defaultPIN)
                      ELSE a.defaultPIN
           IN Set(r, Goto([did EXCEPT !.typedPin = pin], StepLog(a, s, a.pc, <<>>), NextForm(a.pc)))

\* read the confirmation page and report
Result(r) ==
  LET a == auto[r] s == stream[r] IN
  /\ a.pc = "result"
  /\ UNCHANGED <<running, lastCode, openSessions, lastJson, tornDown, arg, res>>
  /\ \/ Set(r, Catch(a, s, Thrown))
     \/ \E vocabulary \in BOOLEAN :
          IF a.kind = "bulk"
          THEN Set(r, Continue([a EXCEPT !.surfaceRead = TRUE, !.confirmed = vocabulary], s, "success",
                      IF vocabulary THEN "Application submitted successfully"
                      ELSE "Application submitted. Check Meroshare"))
          ELSE Set(r, Finish([a EXCEPT !.surfaceRead = TRUE, !.confirmed = vocabulary],
                             Append(s, IF vocabulary
                                       THEN EvWith("apply_success", "", "", "Successfully applied", <<a.companyName>>)
                                       ELSE LogWith("Application submitted. Check Meroshare", <<a.companyName>>))))

\* mutant: the finally block goes on while the browser is still there
Close_SessionSurvives(r) ==
  LET a == auto[r] s == stream[r] IN
  /\ a.pc = "closing"
  /\ tornDown' = TRUE
  /\ Set(r, AfterAttempt(a, s))
  /\ UNCHANGED <<running, lastCode, openSessions, lastJson, arg, res>>

\* finally: await browser.close(), then whatever follows the attempt.
\* browser.close() is taken to resolve: Playwright swallows target-closed
\* errors, and nothing in the automations handles a failed teardown.
Close(r) ==
  LET a == auto[r] s == stream[r] IN
  /\ a.pc = "closing"
  /\ openSessions' = openSessions \ {[req |-> r, entry |-> a.browser]}
  /\ tornDown' = TRUE
  /\ Set(r, AfterAttempt(a, s))
  /\ UNCHANGED <<running, lastCode, lastJson, arg, res>>

\* mutant: .then() in place of .finally(): the flag survives a failed automation
Finally_ThenOnly(r) ==
  /\ auto[r].pc = "returned"
  /\ stream[r][Len(stream[r])].type = "done"
  /\ running' = FALSE
  /\ auto' = [auto EXCEPT ![r] = IdleAuto]
  /\ stream' = [stream EXCEPT ![r] = <<>>]
  /\ UNCHANGED <<lastCode, openSessions, lastJson, tornDown, arg, res>>

\* index.ts: .finally(() => { running = false; res.end(); })
\* The response is complete; the server keeps nothing of the request.
Finally(r) ==
  /\ auto[r].pc = "returned"
  /\ running' = FALSE
  /\ auto' = [auto EXCEPT ![r] = IdleAuto]
  /\ stream' = [stream EXCEPT ![r] = <<>>]
  /\ UNCHANGED <<lastCode, openSessions, lastJson, tornDown, arg, res>>

Next ==
  \/ GetAccounts
  \/ GetStatus
  \/ \E r \in Reqs :
    \/ PostRun(r)
    \/ PostScan(r)
    \/ PostApply(r)
    \/ PostBulkApply(r)
    \/ Disconnect(r)
    \/ Launch(r)
    \/ LoginResolve(r)
    \/ LoginFill(r)
    \/ LoginSubmit(r)
    \/ Navigate(r)
    \/ Issues(r)
    \/ ReportTab(r)
    \/ ReportStep(r)
    \/ LocateByIndex(r)
    \/ LocateByName(r)
    \/ FormStep(r)
    \/ Result(r)
    \/ Close(r)
    \/ Finally(r)

Spec == Init /\ [][Next]_vars

\* the page of account "Dad" once loginToMeroshare has resolved
AfterLogin(a) ==
  [a EXCEPT !.browser = 1, !.route = 1, !.dpName = "CITIZENS BANK", !.dpSearch = "CITIZENS BANK",
            !.acts = <<"selectDP", "username", "password", "clickLogin">>]

\* what loginToMeroshare wrote to the stream for account "Dad"
LoginLogs ==
  << Log("On login page"), LogWith("Captured DPs", <<"6", "11700">>),
     LogWith("DP resolved", <<"CITIZENS BANK", "11700", "1">>),
     LogWith("Logging in", <<"u-dad", "CITIZENS BANK">>), Log("Logged in successfully") >>

\* a batch of the one account "Dad", logged in and on the My ASBA page
BulkAtLocate ==
  [auto |-> [AfterLogin([IdleAuto EXCEPT !.kind = "bulk", !.entries = <<"Dad">>, !.idx = 1,
                           !.companyName = "ACME", !.appliedKitta = "10", !.defaultPIN = "1234",
                           !.accountPINs = CHOOSE m \in PinMaps : TRUE])
               EXCEPT !.pc = "locate"],
   stream |-> <<LogWith("Bulk apply starting", <<"ACME", "1">>),
                Status("Dad", "running", "Logging in...")>> \o LoginLogs]

\* a single apply of account "Dad", logged in and on the My ASBA page
ApplyAtLocate(companyIndex) ==
  [auto |-> [AfterLogin([StartSingle("apply", "Dad") EXCEPT
                           !.companyIndex = companyIndex, !.appliedKitta = "10",
                           !.defaultPIN = "1234"])
               EXCEPT !.pc = "locate"],
   stream |-> <<LogWith("Starting IPO application", <<"Dad">>)>> \o LoginLogs
                \o <<Log("Navigated to My ASBA")>>]

\* a scan of account "Dad" whose browser has just been launched
ScanAtLogin ==
  [auto |-> [StartSingle("scan", "Dad") EXCEPT !.pc = "login1", !.browser = 1],
   stream |-> <<LogWith("Scanning for open issues", <<"Dad">>)>>]

\* a scan of account "Dad", logged in and on the My ASBA page
ScanAtIssues ==
  [auto |-> [AfterLogin(StartSingle("scan", "Dad")) EXCEPT !.pc = "issues"],
   stream |-> <<LogWith("Scanning for open issues", <<"Dad">>)>> \o LoginLogs
                \o <<Log("Navigated to My ASBA")>>]

\* ------------------------------------------------------------- web UI
\* accounts the bulk dialog offers (a part of GET /api/accounts)
UIAccounts == {"Dad", "Mom"}

\* what a PIN input may hold: nothing, two digits, four digits
UIPins == {"", "56", "5678"}

\* bulkSelectedAccounts: the selected names, none of them twice
UISelections ==
  {sel \in SeqsUpTo(UIAccounts, MaxBatch) : \A i, j \in 1..Len(sel) : sel[i] = sel[j] => i = j}

\* the state of the bulk dialog: target offer, selection, quantity, default
\* PIN, per-account PINs
BulkForms ==
  [bulkTarget : CompanyNames, bulkSelectedAccounts : UISelections, bulkKitta : {"", "10"},
   bulkPIN : UIPins, bulkAccountPINs : [UIAccounts -> UIPins]]

\* allAccountsHavePIN
AllAccountsHavePIN(form) ==
  \A i \in 1..Len(form.bulkSelectedAccounts) :
    LET name == form.bulkSelectedAccounts[i] IN
    \/ form.bulkAccountPINs[name] # "" /\ Len(form.bulkAccountPINs[name]) = 4
    \/ form.bulkPIN # "" /\ Len(form.bulkPIN) = 4

\* handleBulkApply goes on to fetch (no automation is running in the UI)
CanSubmitBulk(form) ==
  /\ Len(form.bulkSelectedAccounts) # 0
  /\ form.bulkKitta # ""
  /\ AllAccountsHavePIN(form)

\* filledAccountPINs: the per-account PINs of the selection that have 4 digits
FilledAccountPINs(form) ==
  LET filled == {form.bulkSelectedAccounts[i] : i \in 1..Len(form.bulkSelectedAccounts)}
                  \cap {n \in UIAccounts : form.bulkAccountPINs[n] # "" /\ Len(form.bulkAccountPINs[n]) = 4}
  IN [n \in filled |-> form.bulkAccountPINs[n]]

\* the body handleBulkApply posts to /api/bulk-apply
BulkRequest(form) ==
  [accounts |-> form.bulkSelectedAccounts, companyName |-> form.bulkTarget,
   appliedKitta |-> form.bulkKitta, transactionPIN |-> form.bulkPIN,
   accountPINs |-> FilledAccountPINs(form)]

\* setBulkStatuses at submission: one `pending` entry per selected account
InitialStatuses(selected) ==
  [i \in 1..Len(selected) |->
     [account |-> selected[i], status |-> "pending", message |-> <<"Waiting...">>]]

\* event.data of an account_status event: account, status, message (the
\* message as its template and the values it interpolates)
StatusData(e) == [account |-> e.account, status |-> e.status, message |-> <<e.msg>> \o e.data]

\* mutant: every status is added to the list
OnAccountStatus_Append(prev, data) == Append(prev, data)

\* case 'account_status': replace the entry of the account, or append one
OnAccountStatus(prev, data) ==
  LET existing == FirstIndex(prev, LAMBDA x : x.account = data.account)
  IN IF existing > 0 THEN [prev EXCEPT ![existing] = data] ELSE Append(prev, data)

\* bulkStatuses after the events `events` have been read in order, up to and
\* including the first `done`
RECURSIVE BulkStatuses(_, _)
BulkStatuses(prev, events) ==
  IF events = <<>> \/ Head(events).type = "done"
  THEN prev
  ELSE BulkStatuses(IF Head(events).type = "account_status"
                    THEN OnAccountStatus(prev, StatusData(Head(events)))
                    ELSE prev,
                    Tail(events))

\* the request handlers called on their own
PostFns == {"postScan", "postApply", "postBulkApply"}

\* the automation in flight when the step of a call runs; for a request
\* handler: the scan that keeps the server busy
CallState(a) ==
  CASE a.fn = "locateByName" -> BulkAtLocate
    [] a.fn = "locateByIndex" -> ApplyAtLocate(a.companyIndex)
    [] a.fn = "issues" -> ScanAtIssues
    [] a.fn = "captureDPList" -> ScanAtLogin
    [] a.fn \in PostFns -> ScanAtIssues

\* the call meets a server that has answered no request yet
CallIdle(a) ==
  \/ a.fn \in {"selectFirstRealOption", "declaration", "handleBulkApply"}
  \/ a.fn \in PostFns /\ ~a.busy

\* status of the last response before the call
CallCode(a) == IF CallIdle(a) THEN 0 ELSE HttpOk

\* a request handler on its own, with every body of its bounded set, on an
\* idle server and on a server that is busy with a scan
CallPostScan ==
  /\ arg.fn = "postScan"
  /\ lastCode = CallCode(arg)
  /\ \E r \in Reqs : Arrives(r) /\ ScanHandler(r, arg.body)

CallPostApply ==
  /\ arg.fn = "postApply"
  /\ lastCode = CallCode(arg)
  /\ \E r \in Reqs : Arrives(r) /\ ApplyHandler(r, arg.body)

CallPostBulkApply ==
  /\ arg.fn = "postBulkApply"
  /\ lastCode = CallCode(arg)
  /\ \E r \in Reqs : Arrives(r) /\ BulkApplyHandler(r, arg.body)

\* the Apply button of the bulk dialog is pressed, with every state of the
\* dialog, while the server is idle: the request the UI sends, if it sends
\* one, reaches the handler
CallHandleBulkApply ==
  /\ arg.fn = "handleBulkApply"
  /\ lastCode = CallCode(arg)
  /\ CanSubmitBulk(arg.form)
  /\ \E r \in Reqs : Arrives(r) /\ BulkApplyHandler(r, BulkRequest(arg.form))

\* the helper functions, single steps and request handlers, each called on
\* its own with every input of a bounded set: a helper with the server idle,
\* a step in the first request slot, logged in, with the offer list it meets
CallArgs ==
  [fn : {"selectFirstRealOption"}, options : CallOptionLists]
    \cup [fn : {"locateByName"}, offers : OfferLists]
    \cup [fn : {"locateByIndex"}, offers : OfferLists, companyIndex : CompanyIndexes]
    \cup [fn : {"issues"}, offers : ScanLists]
    \cup [fn : {"declaration"}, isChecked : BOOLEAN]
    \cup [fn : {"postScan"}, busy : BOOLEAN, body : ScanBodies]
    \cup [fn : {"postApply"}, busy : BOOLEAN, body : ApplyBodies]
    \cup [fn : {"postBulkApply"}, busy : BOOLEAN, body : BulkBodies]
    \cup [fn : {"handleBulkApply"}, form : BulkForms]
    \cup [fn : {"captureDPList"}, responses : ResponseLists]

CallInit ==
  /\ arg \in CallArgs
  /\ res = NoCall
  /\ lastJson = NoJson
  /\ tornDown = FALSE
  /\ IF CallIdle(arg)
     THEN /\ running = FALSE
          /\ lastCode = 0
          /\ auto = [r \in Reqs |-> IdleAuto]
          /\ stream = [r \in Reqs |-> <<>>]
          /\ openSessions = {}
     ELSE /\ running = TRUE
          /\ lastCode = HttpOk
          /\ auto = [r \in Reqs |-> IF r = 1 THEN CallState(arg).auto ELSE IdleAuto]
          /\ stream = [r \in Reqs |-> IF r = 1 THEN CallState(arg).stream ELSE <<>>]
          /\ openSessions = {[req |-> 1, entry |-> 1]}

CallNext ==
  \/ CallSelectFirstRealOption
  \/ CallLocateByName
  \/ CallLocateByIndex
  \/ CallIssues
  \/ CallDeclaration
  \/ CallPostScan
  \/ CallPostApply
  \/ CallPostBulkApply
  \/ CallHandleBulkApply
  \/ CallCaptureDPList

CallSpec == CallInit /\ [][CallNext]_vars

\* every awaited step terminates (it succeeds or times out) and the promise
\* callbacks run: weak fairness on the steps of the automations
FairSpec ==
  /\ Spec
  /\ WF_vars(\E r \in Reqs :
               Launch(r) \/ LoginResolve(r) \/ LoginFill(r) \/ LoginSubmit(r) \/ Navigate(r)
               \/ Issues(r) \/ ReportTab(r) \/ ReportStep(r) \/ LocateByIndex(r)
               \/ LocateByName(r) \/ FormStep(r) \/ Result(r) \/ Close(r) \/ Finally(r))

TypeOK ==
  /\ running \in BOOLEAN
  /\ lastCode \in {0, HttpOk, HttpConflict, HttpBadRequest, HttpNotFound}
  /\ lastJson.route \in {"", "post", "accounts", "status"}
  /\ \A x \in openSessions : x.req \in Reqs

\* ------------------------------------------------------------ properties
IsStatus(e) == e.type = "account_status"

IsTerminal(e) == e.type = "account_status" /\ e.status \in TerminalStatuses

IsLoggingIn(e) == e.type = "account_status" /\ e.status = "running" /\ e.msg = "Logging in..."

IsDone(e) == e.type = "done"

AccountsOf(evs) == [i \in 1..Len(evs) |-> evs[i].account]

Bulk(r) == auto[r].kind = "bulk"

BulkReturned(r) == Bulk(r) /\ auto[r].pc = "returned"

SessionsOf(r) == {x \in openSessions : x.req = r}

InFlight == {r \in Reqs : auto[r].pc # "idle"}

FormActs == {FormSteps[i] : i \in 1..Len(FormSteps)}

ActsOf(a) == {a.acts[i] : i \in 1..Len(a.acts)}

\* C1: a finished bulk batch over N entries has exactly N terminal
\* account_status records, every account name of the batch is in exactly one
\* of them, and exactly one `done` follows them all.
C1_OneTerminalPerAccountName ==
  \A r \in Reqs : BulkReturned(r) =>
    LET s == stream[r]
        term == SelectSeq(s, IsTerminal)
    IN /\ Len(term) = Len(auto[r].entries)
       /\ \A i \in 1..Len(auto[r].entries) :
            Cardinality({j \in 1..Len(term) : term[j].account = auto[r].entries[i]}) = 1
       /\ Len(SelectSeq(s, IsDone)) = 1
       /\ IsDone(s[Len(s)])

\* C2: in a bulk batch a failing account never aborts the batch: when the
\* batch returns every entry has been attempted in order (one "Logging in..."
\* record per entry), every entry has its terminal status in order, and the
\* stream ends with `done`; while entries remain the batch has not returned.
C2_FailureNeverAbortsBatch ==
  \A r \in Reqs : Bulk(r) =>
    LET s == stream[r] a == auto[r] IN
    /\ a.pc = "returned" =>
         /\ a.idx = Len(a.entries)
         /\ AccountsOf(SelectSeq(s, IsLoggingIn)) = a.entries
         /\ AccountsOf(SelectSeq(s, IsTerminal)) = a.entries
         /\ IsDone(s[Len(s)])
    /\ a.pc # "returned" => Len(SelectSeq(s, IsDone)) = 0

C2_Witness ==
  \E r \in Reqs :
    /\ BulkReturned(r)
    /\ Len(auto[r].entries) = 2
    /\ LET term == SelectSeq(stream[r], IsTerminal) IN
       /\ Len(term) = 2
       /\ term[1].status = "login_failed"
       /\ term[2].status = "success"

\* a response of a GET route
IsQuery(j) == j.route \in {"accounts", "status"}

\* C3: at most one automation is in flight at any time; while the busy flag
\* is set an arriving request for an automation is answered 409 and starts
\* nothing, and an automation only ever starts at an admission made while
\* the flag is clear.
C3_SingleWorker ==
  /\ [](Cardinality(InFlight) <= 1)
  /\ [][ /\ running => /\ \A r \in Reqs : auto[r].pc = "idle" => auto'[r].pc = "idle"
                       /\ (lastCode' # lastCode \/ lastJson' # lastJson) =>
                            (lastCode' = HttpConflict \/ IsQuery(lastJson'))
         /\ \A r \in Reqs : (auto[r].pc = "idle" /\ auto'[r].pc # "idle") =>
              (~running /\ running' /\ lastCode' = HttpOk) ]_vars

C3_Witness == running /\ lastCode = HttpConflict /\ Cardinality(InFlight) = 1

C5_EditOnlyNeverFillsForm ==
  \A r \in Reqs :
    (auto[r].kind \in {"apply", "bulk"} /\ auto[r].editOnly) =>
      ActsOf(auto[r]) \cap FormActs = {}

\* C6 as stated: every login POST leaves with the resolved participant's id,
\* whatever clientId the page placed in the payload.
C6_AlwaysRewritten ==
  \A r \in Reqs : \A i \in 1..Len(auto[r].posts) :
    auto[r].posts[i].out = auto[r].route

\* C6 amended: a login POST whose payload carries clientId 0 leaves with the
\* resolved participant's id; a payload with any other clientId leaves unchanged.
C6_SentinelRewritten ==
  \A r \in Reqs : \A i \in 1..Len(auto[r].posts) :
    LET post == auto[r].posts[i] IN
    /\ auto[r].route # 0
    /\ post.sent = 0 => post.out = auto[r].route
    /\ post.sent # 0 => post.out = post.sent

C6_Witness ==
  \E r \in Reqs : \E i \in 1..Len(auto[r].posts) :
    auto[r].posts[i].sent = 0 /\ auto[r].posts[i].out = auto[r].route /\ auto[r].route # 0

\* C7: during a bulk batch at most one browser session is open, the open
\* session is the one launched for the entry being processed, and a session
\* is launched only when the batch holds no open session.
C7_OneSessionPerEntry ==
  /\ [](\A r \in Reqs : Bulk(r) =>
          /\ Cardinality(openSessions) <= 1
          /\ \A x \in SessionsOf(r) : x.entry = auto[r].idx /\ auto[r].browser = x.entry)
  /\ [][\A x \in openSessions' \ openSessions :
          {y \in openSessions : y.req = x.req} = {}]_vars

\* the second entry of a batch has its own open session
C7_Witness ==
  \E r \in Reqs : Bulk(r) /\ auto[r].idx = 2 /\ [req |-> r, entry |-> 2] \in openSessions

\* C8: no operation returns, and no bulk attempt hands over to the next
\* entry, with a session it opened still open.
C8_SessionClosedOnEveryExit ==
  \A r \in Reqs : auto[r].pc \in {"idle", "launch", "returned"} => SessionsOf(r) = {}

\* a single apply that failed in the middle of the form has returned
C8_Witness ==
  \E r \in Reqs :
    /\ auto[r].kind = "apply"
    /\ auto[r].pc = "returned"
    /\ \E i \in 1..Len(stream[r]) : stream[r][i].type = "log" /\ stream[r][i].msg = "bank"
    /\ stream[r][Len(stream[r])].type = "error"

\* C9: in a bulk batch the first account_status record of every account is
\* `running`, no account_status record of an account follows its terminal
\* record, and a finished batch has exactly one terminal record per account.
C9_TerminalNeverReverts ==
  \A r \in Reqs : Bulk(r) =>
    LET st == SelectSeq(stream[r], IsStatus) IN
    \A i \in 1..Len(st) :
      /\ (\A j \in 1..(i - 1) : st[j].account # st[i].account) => st[i].status = "running"
      /\ IsTerminal(st[i]) => \A j \in (i + 1)..Len(st) : st[j].account # st[i].account

\* C10 as stated: the PIN typed is the override whenever an entry exists for
\* the account (nullish coalescing), the default otherwise.
C10_NullishOverride ==
  \A r \in Reqs : (Bulk(r) /\ "pin" \in ActsOf(auto[r])) =>
    LET a == auto[r] n == CurName(auto[r]) IN
    a.typedPin = IF n \in DOMAIN a.accountPINs THEN a.accountPINs[n] ELSE a.defaultPIN

\* C10 amended: the PIN typed is the override when an entry exists for the
\* account and is not empty, and the default PIN otherwise.
C10_TruthyOverride ==
  \A r \in Reqs : (Bulk(r) /\ "pin" \in ActsOf(auto[r])) =>
    LET a == auto[r] n == CurName(auto[r])
        present == n \in DOMAIN a.accountPINs
    IN /\ (present /\ a.accountPINs[n] # "") => a.typedPin = a.accountPINs[n]
       /\ (present /\ a.accountPINs[n] = "") => a.typedPin = a.defaultPIN
       /\ ~present => a.typedPin = a.defaultPIN

\* an account with a non-empty override has had its override typed
C10_Witness ==
  \E r \in Reqs :
    /\ Bulk(r)
    /\ "pin" \in ActsOf(auto[r])
    /\ CurName(auto[r]) \in DOMAIN auto[r].accountPINs
    /\ auto[r].typedPin = "5678"

\* the code looked for and the codes listed by a DP-not-found failure event
\* (an `error` event, or the login_failed record of a bulk batch)
IsDPNotFound(e) ==
  \/ e.type = "error" /\ e.msg = "DP not found"
  \/ e.type = "account_status" /\ e.status = "login_failed" /\ e.data[1] = "DP not found"

NotFoundArgs(e) == IF e.type = "error" THEN e.data ELSE Tail(e.data)

\* C11: while loginToMeroshare holds a resolved participant, that participant
\* is the first entry of the captured list whose code equals the account's
\* participant code exactly; and every DP-not-found failure was raised over a
\* list none of whose entries has that code.
C11_ExactCodeResolution ==
  \A r \in Reqs :
    LET a == auto[r] IN
    /\ a.pc \in {"login2", "login3"} =>
         \E k \in 1..Len(a.dpList) :
           /\ a.dpList[k].code = CurCred(a).DP_CODE
           /\ \A j \in 1..(k - 1) : a.dpList[j].code # CurCred(a).DP_CODE
           /\ a.route = a.dpList[k].id
           /\ a.dpName = a.dpList[k].name
    /\ \A i \in 1..Len(stream[r]) :
         IsDPNotFound(stream[r][i]) =>
           LET args == NotFoundArgs(stream[r][i]) IN
           \A j \in 1..Len(args[2]) : args[2][j][1] # args[1]

\* code 11700 was resolved over a list that has the code twice, behind another entry
C11_Witness ==
  \E r \in Reqs :
    /\ auto[r].pc = "login2"
    /\ CurCred(auto[r]).DP_CODE = "11700"
    /\ Cardinality({k \in 1..Len(auto[r].dpList) : auto[r].dpList[k].code = "11700"}) = 2
    /\ auto[r].route = 1

Single(r) == auto[r].kind \in {"run", "scan", "apply"}

IsEnd(e) == e.type \in {"done", "error"}

\* C12: the stream of a single-account flow (run, scan, single apply) holds at
\* most one `done` or `error` event, that event is the last one and is only
\* written when the flow is over, and a flow that has returned has written
\* exactly one.
C12_OneEndEvent ==
  \A r \in Reqs : Single(r) =>
    LET s == stream[r]
        ends == SelectSeq(s, IsEnd)
    IN /\ Len(ends) <= 1
       /\ Len(ends) = 1 => (IsEnd(s[Len(s)]) /\ auto[r].pc \in {"closing", "returned"})
       /\ auto[r].pc = "returned" => Len(ends) = 1

\* a run that failed after it had delivered a report has returned with `error`
C12_Witness ==
  \E r \in Reqs :
    /\ auto[r].kind = "run"
    /\ auto[r].pc = "returned"
    /\ \E i \in 1..Len(stream[r]) : stream[r][i].type = "report"
    /\ stream[r][Len(stream[r])].type = "error"
    /\ Len(SelectSeq(stream[r], IsEnd)) = 1

Count(seq, x) == Cardinality({i \in 1..Len(seq) : seq[i] = x})

IsFailure(e) ==
  \/ e.type = "error"
  \/ e.type = "account_status" /\ e.status \in {"error", "login_failed"}

\* the attempt in progress has reported its failure
Failed(r) == Len(stream[r]) > 0 /\ IsFailure(stream[r][Len(stream[r])])

\* C13: no step is retried: an account attempt performs every page
\* interaction at most once (one click on Login, one login POST, one final
\* Apply click), and once the attempt has reported a failure the next step
\* performs no interaction of that attempt: it tears down or starts the next one.
C13_NoRetry ==
  /\ [](\A r \in Reqs :
          /\ \A x \in ActsOf(auto[r]) : Count(auto[r].acts, x) = 1
          /\ Len(auto[r].posts) <= 1)
  /\ [][\A r \in Reqs : Failed(r) =>
          /\ auto'[r].acts = auto[r].acts \/ auto'[r].acts = <<>>
          /\ auto'[r].posts = auto[r].posts \/ auto'[r].posts = <<>>
          /\ auto'[r].pc \in {"closing", "launch", "returned", "idle"}]_vars

\* reading the result failed after the one final Apply click
C13_Witness ==
  \E r \in Reqs :
    /\ Failed(r)
    /\ auto[r].pc = "closing"
    /\ Count(auto[r].acts, "final") = 1
    /\ Count(auto[r].acts, "clickLogin") = 1

\* what happened in the bulk attempt that has just recorded its terminal status
LoginFailed(a) == a.endedAt \in {"login1", "login2", "login3"}

EditOnlyDetected(a) == a.endedAt = "locate" /\ a.editOnly

SubmittedConfirmed(a) == a.endedAt = "result" /\ "final" \in ActsOf(a) /\ a.confirmed

\* C14: the terminal status of a bulk attempt tells its outcome:
\* already_applied exactly when only an Edit affordance was detected,
\* login_failed exactly when the login sequence failed, success exactly when
\* the application was submitted and confirmed, error for every other failure.
C14_StatusTellsOutcome ==
  \A r \in Reqs : (Bulk(r) /\ auto[r].pc = "closing") =>
    LET a == auto[r]
        e == stream[r][Len(stream[r])]
    IN /\ IsTerminal(e)
       /\ e.status = "already_applied" <=> EditOnlyDetected(a)
       /\ e.status = "login_failed" <=> LoginFailed(a)
       /\ e.status = "success" <=> SubmittedConfirmed(a)
       /\ e.status = "error" <=> ~(EditOnlyDetected(a) \/ LoginFailed(a) \/ SubmittedConfirmed(a))

\* the secrets a request handles: the passwords of the credential store, the
\* default transaction PIN and the per-account overrides
Secrets(a) ==
  ({Creds[n].password : n \in Accounts} \cup {a.defaultPIN}
     \cup {a.accountPINs[n] : n \in DOMAIN a.accountPINs}) \ {""}

\* C15: no `log` event of run, scan, single apply or bulk apply carries a
\* password or a transaction PIN (default or override), neither as its
\* message nor as a value interpolated into it.
C15_NoSecretInLog ==
  \A r \in Reqs : \A i \in 1..Len(stream[r]) :
    LET e == stream[r][i] IN
    e.type = "log" =>
      /\ e.msg \notin Secrets(auto[r])
      /\ \A j \in 1..Len(e.data) : e.data[j] \notin Secrets(auto[r])

\* a bulk attempt has typed a password and an override PIN, and has logged its login
C15_Witness ==
  \E r \in Reqs :
    /\ Bulk(r)
    /\ auto[r].typedPin = "5678"
    /\ "password" \in ActsOf(auto[r])
    /\ \E i \in 1..Len(stream[r]) :
         stream[r][i].type = "log" /\ stream[r][i].msg = "Logging in" /\ Len(stream[r][i].data) > 0

\* what the credential store holds that must not leave the server
StoredSecrets ==
  UNION { {Creds[n].password, Creds[n].CRN} \cup
          (IF "TPIN" \in DOMAIN Creds[n] THEN {Creds[n].TPIN} ELSE {}) : n \in Accounts }

Completed(r) ==
  /\ auto[r].pc = "returned"
  /\ SessionsOf(r) = {}
  /\ IsEnd(stream[r][Len(stream[r])])

\* C17: a client that disconnects stops nothing: the disconnect changes
\* neither the automation's position, nor its stream, nor its session, nor
\* the busy flag; while the disconnected request's automation exists the flag
\* stays set and is released only when the automation has returned with its
\* session closed and its stream ended; and the automation does get there
\* (no disconnected request stays uncompleted for ever).
C17_DisconnectStopsNothing ==
  /\ [](\A r \in Reqs : auto[r].clientGone => (running /\ auto[r].pc # "idle"))
  /\ [][\A r \in Reqs : (auto'[r].clientGone /\ ~auto[r].clientGone) =>
          /\ auto' = [auto EXCEPT ![r].clientGone = TRUE]
          /\ UNCHANGED <<running, stream, openSessions>>]_vars
  /\ [][\A r \in Reqs : (auto[r].clientGone /\ ~running') => Completed(r)]_vars
  /\ []<>(\A r \in Reqs : auto[r].clientGone => Completed(r))

\* the client left while a session was open in the middle of the form, and
\* a later request was turned away
C17_Witness ==
  \E r \in Reqs :
    /\ auto[r].clientGone
    /\ auto[r].pc = "kitta"
    /\ SessionsOf(r) # {}
    /\ lastCode = HttpConflict

\* event types of the stream of request r
TypesOf(r) == {stream[r][i].type : i \in 1..Len(stream[r])}

\* C18: a scan stream carries only log, issue, done and error events, a
\* single-apply stream only log, apply_success, done and error events, and
\* a bulk-apply stream only log, account_status, done and error events.
C18_StreamTypes ==
  \A r \in Reqs :
    /\ auto[r].kind = "scan" => TypesOf(r) \subseteq {"log", "issue", "done", "error"}
    /\ auto[r].kind = "apply" => TypesOf(r) \subseteq {"log", "apply_success", "done", "error"}
    /\ auto[r].kind = "bulk" => TypesOf(r) \subseteq {"log", "account_status", "done", "error"}

\* a finished bulk stream with a success record, login logs and its `done`
C18_Witness ==
  \E r \in Reqs :
    /\ BulkReturned(r)
    /\ TypesOf(r) = {"log", "account_status", "done"}
    /\ \E i \in 1..Len(stream[r]) : stream[r][i].status = "success"

\* C19: GET /api/status answers with the value the busy flag has at that
\* moment, and the flag is set exactly while some admitted request's
\* automation has not finished.
C19_StatusIsBusyFlag ==
  /\ [](running <=> InFlight # {})
  /\ [][(lastJson' # lastJson /\ lastJson'.route = "status") =>
          /\ lastJson'.body = <<[running |-> running]>>
          /\ lastCode' = HttpOk
          /\ running' = running]_vars

\* the status route has answered true while an automation is in the middle of its login
C19_Witness ==
  /\ lastJson.route = "status"
  /\ lastJson.body = <<[running |-> TRUE]>>
  /\ \E r \in Reqs : auto[r].pc = "login2"

\* the steps of an automation that drive the page
PageSteps ==
  {"login1", "login2", "login3", "navigate", "issues", "reportTab", "report", "locate", "result"}
    \cup FormActs

\* C20 as stated: a scan made after a session has been torn down fails: it
\* ends with an error (session closed) and delivers no offer list.
C20_RescanFails ==
  \A r \in Reqs :
    (auto[r].kind = "scan" /\ tornDown /\ auto[r].pc = "closing") =>
      /\ stream[r][Len(stream[r])].type = "error"
      /\ "issue" \notin TypesOf(r)

\* C20 amended: no scan uses a torn-down session: every scan launches a
\* session of its own, also after an earlier session has been torn down;
\* every page step of the scan, the reading of the offer list included, runs
\* while that session is open; and the scan ends with `done` or `error` as a
\* first scan does.
C20_RescanUsesNewSession ==
  /\ [](\A r \in Reqs : auto[r].kind = "scan" =>
          /\ auto[r].pc \in PageSteps \cup {"closing"} =>
               (SessionsOf(r) = {[req |-> r, entry |-> 1]} /\ auto[r].browser = 1)
          /\ auto[r].pc = "closing" => IsEnd(stream[r][Len(stream[r])]))
  /\ [][\A r \in Reqs :
          (auto[r].kind = "scan" /\ Len(stream'[r]) > Len(stream[r]) /\ auto[r].pc = "issues") =>
            (auto'[r].pc = "closing" /\ SessionsOf(r) # {} /\ SessionsOf(r)' # {})]_vars
  /\ [][\A r \in Reqs :
          (auto[r].kind = "scan" /\ auto[r].pc = "launch" /\ auto'[r].pc = "login1") =>
            (SessionsOf(r) = {} /\ SessionsOf(r)' = {[req |-> r, entry |-> 1]})]_vars

\* after an earlier session was torn down, a scan has read two offers in its
\* own session and ended with `done`
C20_Witness ==
  \E r \in Reqs :
    /\ auto[r].kind = "scan"
    /\ tornDown
    /\ auto[r].pc = "closing"
    /\ SessionsOf(r) # {}
    /\ Len(SelectSeq(stream[r], LAMBDA e : e.type = "issue")) = 2
    /\ IsDone(stream[r][Len(stream[r])])

\* the interactions with the login form
LoginActs == {"selectDP", "username", "password", "clickLogin"}

\* C21: participant resolution completes before any login-form interaction:
\* a session in which the form was touched or a login POST was sent holds a
\* resolved participant; the resolution step itself touches nothing; and a
\* session whose resolution failed ends with no form interaction and no POST.
C21_ResolveBeforeForm ==
  /\ [](\A r \in Reqs :
          LET a == auto[r] IN
          /\ (ActsOf(a) \cap LoginActs # {} \/ a.posts # <<>>) =>
               (a.dpName # "" /\ a.route # 0 /\ a.pc # "login1")
          /\ a.endedAt = "login1" => (a.acts = <<>> /\ a.posts = <<>>))
  /\ [][\A r \in Reqs :
          auto[r].pc = "login1" =>
            (auto'[r].acts = auto[r].acts /\ auto'[r].posts = auto[r].posts)]_vars

\* the session of the second entry of a batch, whose participant was not
\* found, is being closed
C21_Witness ==
  \E r \in Reqs :
    /\ auto[r].pc = "closing"
    /\ auto[r].endedAt = "login1"
    /\ IsDPNotFound(stream[r][Len(stream[r])])
    /\ auto[r].idx = 2

LastPost(a) == a.posts[Len(a.posts)]

\* message and arguments of the error a failure event reports
FailureText(e) == IF e.type = "error" THEN <<e.msg>> \o e.data ELSE e.data

\* C23: the login is classified by the authentication response: a status
\* other than 200 ends the login with a failure that carries the status and
\* the body read from the response; the flow goes on past the login only
\* after a 200 response and the dashboard; a 200 response without the
\* dashboard is a login failure too.
C23_LoginClassified ==
  \A r \in Reqs :
    LET a == auto[r]
        e == stream[r][Len(stream[r])]
    IN
    /\ (a.endedAt = "login3" /\ a.posts # <<>>) =>
         /\ IsFailure(e)
         /\ ~LastPost(a).dashboard
         /\ LastPost(a).status # HttpOk =>
              FailureText(e) =
                <<"Login failed with HTTP", ToString(LastPost(a).status), LastPost(a).body>>
    /\ a.pc = "navigate" =>
         /\ a.posts # <<>>
         /\ LastPost(a).status = HttpOk
         /\ LastPost(a).dashboard
         /\ e = Log("Logged in successfully")

\* a batch entry was refused with 401 and an unreadable body: login_failed
C23_Witness ==
  \E r \in Reqs :
    /\ Bulk(r)
    /\ auto[r].endedAt = "login3"
    /\ auto[r].posts # <<>>
    /\ LastPost(auto[r]).status = 401
    /\ LastPost(auto[r]).body = "(unreadable)"
    /\ stream[r][Len(stream[r])].status = "login_failed"

\* an option selectFirstRealOption may select: its text is neither empty nor
\* a placeholder, its value neither empty nor a null/undefined sentinel
Eligible(o) ==
  /\ Trim(o.text) # ""
  /\ Lower(Trim(o.text)) \notin {"please choose one", "please choose", "select bank"}
  /\ o.value \notin {"", "null", "undefined"}

\* the example of the specification
ExampleOptions ==
  << [text |-> "Please Choose", value |-> "1"],
     [text |-> "Acme Bank", value |-> "17"],
     [text |-> "Beta Bank", value |-> "21"] >>

\* C24: selectFirstRealOption selects the first eligible option in control
\* order and returns its trimmed text; it throws exactly when no option is
\* eligible; for "Please Choose", "Acme Bank", "Beta Bank" it returns
\* "Acme Bank".
C24_FirstRealOption ==
  res.fn = "selectFirstRealOption" =>
    LET o == arg.options IN
    /\ res.threw <=> \A i \in 1..Len(o) : ~Eligible(o[i])
    /\ ~res.threw =>
         /\ res.index \in 1..Len(o)
         /\ Eligible(o[res.index])
         /\ \A j \in 1..(res.index - 1) : ~Eligible(o[j])
         /\ res.text = Trim(o[res.index].text)
    /\ o = ExampleOptions => (~res.threw /\ res.text = "Acme Bank")

\* the call on the example list has returned
C24_Witness ==
  /\ res.fn = "selectFirstRealOption"
  /\ arg.options = ExampleOptions
  /\ res.index = 2

\* the event that reports the outcome of an attempt whose confirmation
\* surface was read: the last one of a batch entry, the one before `done` of
\* a single apply
OutcomeEvent(r) ==
  IF Bulk(r) THEN stream[r][Len(stream[r])] ELSE stream[r][Len(stream[r]) - 1]

\* what tells the caller the kind of an outcome event
Discriminant(e) == <<e.type, e.status>>

\* C25: once the confirmation surface has been read, success vocabulary
\* yields the Succeeded event (apply_success, status success), and a surface
\* without it yields an event that is no error and is distinct from the
\* Succeeded one, in the single-apply flow and in the bulk flow; neither case
\* yields an error.
C25_UnconfirmedIsDistinct ==
  \A r \in Reqs :
    (auto[r].pc = "closing" /\ auto[r].surfaceRead) =>
      LET e == OutcomeEvent(r)
          succeeded == {<<"apply_success", "">>, <<"account_status", "success">>}
      IN /\ ~IsFailure(e)
         /\ auto[r].confirmed => Discriminant(e) \in succeeded
         /\ ~auto[r].confirmed => Discriminant(e) \notin succeeded

\* the form steps the specification names, in its order
ClaimedOrder == <<"bank", "account", "kitta", "declaration", "proceed", "pin", "final">>

Pos(x) == CHOOSE i \in 1..Len(ClaimedOrder) : ClaimedOrder[i] = x

ClaimedSteps == {ClaimedOrder[i] : i \in 1..Len(ClaimedOrder)}

\* the clicks that open the form of the located offer
LocateActs == {"clickApply", "clickAction", "clickItem"}

\* C26: within one apply attempt the form steps happen in the order bank,
\* account, quantity, declaration, Proceed, PIN, final confirmation, each at
\* most once and none before the offer was located and clicked; a step is
\* taken only after every earlier one (the declaration click is skipped when
\* the box is already checked); so the PIN is never entered before Proceed
\* and the final confirmation never clicked before the PIN.
C26_FormOrder ==
  \A r \in Reqs :
    LET a == auto[r]
        f == SelectSeq(a.acts, LAMBDA x : x \in ClaimedSteps)
        done == {f[i] : i \in 1..Len(f)}
    IN
    /\ \A i, j \in 1..Len(f) : i < j => Pos(f[i]) < Pos(f[j])
    /\ \A i \in 1..Len(a.acts) :
         a.acts[i] \in FormActs => \E j \in 1..(i - 1) : a.acts[j] \in LocateActs
    /\ \A x \in done : \A y \in ClaimedSteps :
         (Pos(y) < Pos(x) /\ y # "declaration") => y \in done
    /\ "proceed" \in done => a.checked
    /\ "pin" \in done => "proceed" \in done
    /\ "final" \in done => "pin" \in done
    /\ a.pc \in ClaimedSteps => \A x \in done : Pos(x) < Pos(a.pc)

\* a batch entry went through the whole form, the declaration box being
\* checked already, and waits for the confirmation surface
C26_Witness ==
  \E r \in Reqs :
    /\ Bulk(r)
    /\ auto[r].pc = "result"
    /\ SelectSeq(auto[r].acts, LAMBDA x : x \in ClaimedSteps)
         = <<"bank", "account", "kitta", "proceed", "pin", "final">>

\* C27: the bulk lookup by name selects the lowest-index listed item whose
\* trimmed name equals the requested name case-insensitively (the whole name,
\* not a part of it), also when several items carry that name, and what
\* follows is decided on the buttons of that item; when no item matches or
\* the list is empty the account ends with the terminal status `error` and
\* neither an offer nor the form has been touched.
C27_FirstExactNameMatch ==
  res.fn = "locateByName" =>
    LET offers == arg.offers
        a == auto[1]
        last == stream[1][Len(stream[1])]
        M == {i \in 1..Len(offers) : Lower(Trim(offers[i].name)) = Lower(a.companyName)}
    IN /\ M = {} =>
            /\ res.index = 0
            /\ a.pc = "closing"
            /\ last.type = "account_status" /\ last.account = "Dad" /\ last.status = "error"
            /\ ActsOf(a) \cap (LocateActs \cup FormActs) = {}
       /\ M # {} =>
            /\ res.index \in M
            /\ \A j \in M : res.index <= j
            /\ a.editOnly = EditOnly(offers[res.index].buttons)
            /\ a.pc = "bank" => HasVisible(offers[res.index].buttons, "apply")
            /\ (a.pc = "closing" /\ last.status = "already_applied")
                 => EditOnly(offers[res.index].buttons)

\* two listed items carry the requested name; the first offers Edit only, the
\* second offers Apply: the first is taken and the account is reported as
\* already applied
C27_Witness ==
  /\ res.fn = "locateByName"
  /\ Len(arg.offers) = 2
  /\ arg.offers[1].name = " Acme " /\ arg.offers[2].name = " Acme "
  /\ arg.offers[1].buttons = <<Btn("Edit", TRUE)>>
  /\ arg.offers[2].buttons = <<Btn("Apply", TRUE)>>
  /\ res.index = 1
  /\ stream[1][Len(stream[1])].status = "already_applied"

\* C28: in a single apply, a companyIndex that is negative or not smaller
\* than the number of listed offers (the empty list included) ends the flow
\* with an `error` event before any offer is clicked and before any form
\* interaction; otherwise the target is exactly the item at position
\* companyIndex (counted from zero) of the list observed in that session: its
\* name is the one announced, and its buttons decide the click.
C28_IndexValidated ==
  res.fn = "locateByIndex" =>
    LET offers == arg.offers
        companyIndex == arg.companyIndex
        a == auto[1]
        s == stream[1]
        last == s[Len(s)]
        announced == {i \in 1..Len(s) : s[i].type = "log" /\ s[i].msg = "Applying for"}
    IN IF companyIndex < 0 \/ companyIndex >= Len(offers)
       THEN /\ a.pc = "closing"
            /\ last.type = "error"
            /\ announced = {}
            /\ ActsOf(a) \cap (LocateActs \cup FormActs) = {}
       ELSE LET item == offers[companyIndex + 1]
                applyButton == \E i \in 1..Len(item.buttons) :
                                 Lower(item.buttons[i].text) = "apply"
            IN /\ \E i \in announced : s[i].data = <<Trim(item.name)>>
               /\ a.companyName = Trim(item.name)
               /\ a.editOnly = EditOnly(item.buttons)
               /\ a.pc = "bank" =>
                    /\ a.acts[Len(a.acts)] \in LocateActs
                    /\ a.acts[Len(a.acts)] = "clickApply" <=> applyButton
               /\ ActsOf(a) \cap FormActs = {}

\* two differently named offers are listed and the request names the second
\* one, which offers Edit only: that one is announced and its Edit button is
\* the one clicked
C28_Witness ==
  /\ res.fn = "locateByIndex"
  /\ arg.companyIndex = 1
  /\ Len(arg.offers) = 2
  /\ arg.offers[1].name = " Acme " /\ arg.offers[1].buttons = <<Btn("Apply", TRUE)>>
  /\ arg.offers[2].name = "ACME LTD" /\ arg.offers[2].buttons = <<Btn("Edit", TRUE)>>
  /\ auto[1].pc = "bank"
  /\ auto[1].companyName = "ACME LTD"
  /\ auto[1].acts[Len(auto[1].acts)] = "clickAction"

\* what an `issue` event shows for a display element with the text `text`
Shown(text) == IF Trim(text) = "" THEN "N/A" ELSE Trim(text)

\* C29: a scan emits exactly one `issue` event per listed offer, in list
\* order, followed by `done`; a display sub-field (name, sub-group, share
\* type, share group) that is missing or blank is replaced by a placeholder,
\* and neither aborts the scan (no `error` event) nor drops the item.
C29_OneIssuePerOffer ==
  res.fn = "issues" =>
    LET offers == arg.offers
        s == stream[1]
        before == Len(ScanAtIssues.stream)
        issues == SelectSeq(s, LAMBDA e : e.type = "issue")
        first == IF Len(offers) = 0 THEN before + 1 ELSE before + 2
    IN /\ Len(issues) = Len(offers)
       /\ \A i \in 1..Len(offers) :
            /\ s[first + i - 1] = issues[i]
            /\ Field(issues[i], "name") = Shown(offers[i].name)
            /\ Field(issues[i], "subGroup") = Shown(offers[i].subGroup)
            /\ Field(issues[i], "shareType") = Shown(offers[i].shareType)
            /\ Field(issues[i], "shareGroup") = Shown(offers[i].shareGroup)
       /\ Len(s) = before + 1 + Len(offers) + 1
       /\ s[Len(s)] = Done
       /\ \A i \in 1..Len(s) : s[i].type # "error"
       /\ auto[1].endedAt = "issues"

\* the first of two listed items has no readable name and a blank sub-group,
\* the second lacks its share type: both are reported, in that order, with
\* the placeholder in the three places, and `done` follows
C29_Witness ==
  /\ res.fn = "issues"
  /\ Len(arg.offers) = 2
  /\ arg.offers[1].name = "" /\ arg.offers[1].subGroup = ""
  /\ arg.offers[2].name = "ACME LTD" /\ arg.offers[2].shareType = ""
  /\ LET issues == SelectSeq(stream[1], LAMBDA e : e.type = "issue")
     IN /\ Len(issues) = 2
        /\ Field(issues[1], "name") = "N/A" /\ Field(issues[1], "subGroup") = "N/A"
        /\ Field(issues[2], "name") = "ACME LTD" /\ Field(issues[2], "shareType") = "N/A"
  /\ stream[1][Len(stream[1])].type = "done"

\* C30: for each offer produced by a scan, applyAvailable is true exactly
\* when the item shows a submit (Apply) affordance and false when it shows
\* only an edit affordance.
C30_ApplyAvailableProbed ==
  res.fn = "issues" =>
    LET issues == SelectSeq(stream[1], LAMBDA e : e.type = "issue")
    IN \A i \in 1..Len(issues) :
         LET buttons == arg.offers[i].buttons
         IN /\ Field(issues[i], "applyAvailable") \in {"true", "false"}
            /\ Field(issues[i], "applyAvailable") = "true" <=> HasVisible(buttons, "apply")
            /\ EditOnly(buttons) => Field(issues[i], "applyAvailable") = "false"

\* C31: the declaration step is idempotent: after it the declaration box is
\* checked whatever its initial state, the box is clicked only when it was
\* unchecked, and executing the step a second time leaves it checked (and
\* clicks nothing).
C31_DeclarationIdempotent ==
  res.fn = "declaration" =>
    /\ res.checked
    /\ res.clicks = IF arg.isChecked THEN 0 ELSE 1

\* the step ran twice on a box that was unchecked: one click, box checked
C31_Witness ==
  /\ res.fn = "declaration"
  /\ ~arg.isChecked
  /\ res.runs = 2
  /\ res.clicks = 1
  /\ res.checked

\* the account_status events of a request, in the order written
Statuses(r) == SelectSeq(stream[r], IsStatus)

\* positions in Statuses(r) of the `running` status that opens an entry
Opens(r) == {i \in 1..Len(Statuses(r)) : IsLoggingIn(Statuses(r)[i])}

\* position of the status that opens entry k
OpenOf(r, k) ==
  CHOOSE i \in Opens(r) : Cardinality({j \in Opens(r) : j <= i}) = k

\* C32: within a bulk batch the accounts are processed strictly one after
\* the other in the order given: the entries are opened in array order, all
\* statuses between the opening of entry k and that of entry k+1 are of
\* entry k and exactly one of them is terminal, so for positions i < j the
\* terminal status of i precedes the first `running` status of j; and every
\* login or form step happens in the session of the entry opened last, after
\* the terminal status of every earlier entry.
C32_StrictlySequential ==
  \A r \in Reqs :
    (Bulk(r) /\ auto[r].pc # "idle") =>
      LET a == auto[r]
          st == Statuses(r)
          n == Cardinality(Opens(r))
          EndOf(k) == IF k < n THEN OpenOf(r, k + 1) - 1 ELSE Len(st)
          TerminalsOf(k) == {i \in OpenOf(r, k)..EndOf(k) : IsTerminal(st[i])}
      IN /\ n = a.idx
         /\ n <= Len(a.entries)
         /\ \A k \in 1..n :
              /\ \A i \in OpenOf(r, k)..EndOf(k) : st[i].account = a.entries[k]
              /\ k < n => Cardinality(TerminalsOf(k)) = 1
              /\ Cardinality(TerminalsOf(k)) <= 1
         /\ SessionsOf(r) \subseteq {[req |-> r, entry |-> a.idx]}
         /\ (a.acts # <<>> \/ a.posts # <<>>) =>
              /\ a.browser = a.idx
              /\ [req |-> r, entry |-> a.idx] \in openSessions
              /\ TerminalsOf(n) # {} => a.pc = "closing"

\* the second of two differently named accounts is filling the form; the
\* first one has its terminal status, written before the second was opened
C32_Witness ==
  \E r \in Reqs :
    /\ Bulk(r)
    /\ auto[r].entries = <<"Dada", "Mom">>
    /\ auto[r].idx = 2
    /\ auto[r].pc = "kitta"
    /\ \E i, j \in 1..Len(stream[r]) :
         /\ i < j
         /\ IsTerminal(stream[r][i]) /\ stream[r][i].account = "Dada"
         /\ IsLoggingIn(stream[r][j]) /\ stream[r][j].account = "Mom"

\* a required field of the request body is missing or empty
MissingField(a) ==
  CASE a.fn = "postScan" -> a.body.account = ""
    [] a.fn = "postApply" ->
         \/ a.body.account = "" \/ ~a.body.hasIndex
         \/ a.body.appliedKitta = "" \/ a.body.transactionPIN = ""
    [] a.fn = "postBulkApply" ->
         \/ Len(a.body.accounts) = 0 \/ a.body.companyName = ""
         \/ a.body.appliedKitta = "" \/ a.body.transactionPIN = ""

\* the account names of the request body
NamedAccounts(a) ==
  IF a.fn = "postBulkApply"
  THEN {a.body.accounts[i] : i \in 1..Len(a.body.accounts)}
  ELSE {a.body.account}

\* C33: a request is answered 409 when the server is busy, otherwise 400 or
\* 404 when a required field is missing (the empty accounts array included)
\* or a named account is unknown (any single name of a bulk list), and is
\* admitted otherwise; a rejected request starts no automation, opens no
\* session, emits no event and leaves the busy flag as it was; a bulk request
\* is admitted only if every named account exists.
C33_RejectedStartsNothing ==
  (arg.fn \in PostFns /\ lastCode # CallCode(arg)) =>
    LET unknown == \E n \in NamedAccounts(arg) : n \notin Accounts
        before == IF arg.busy THEN 1 ELSE 0
        started == {r \in Reqs : auto[r].pc # "idle"}
    IN /\ arg.busy => lastCode = HttpConflict
       /\ (~arg.busy /\ (MissingField(arg) \/ unknown)) => lastCode \in {HttpBadRequest, HttpNotFound}
       /\ (~arg.busy /\ ~MissingField(arg) /\ ~unknown) => lastCode = HttpOk
       /\ lastCode = HttpBadRequest => MissingField(arg)
       /\ lastCode = HttpNotFound => unknown
       /\ lastCode # HttpOk =>
            /\ running = arg.busy
            /\ Cardinality(started) = before
            /\ \A r \in Reqs : r > before => auto[r] = IdleAuto /\ stream[r] = <<>>
            /\ arg.busy => auto[1] = ScanAtIssues.auto /\ stream[1] = ScanAtIssues.stream
            /\ openSessions = {x \in {[req |-> 1, entry |-> 1]} : arg.busy}
       /\ lastCode = HttpOk =>
            /\ running
            /\ auto[1].pc = "launch"
            /\ \A i \in 1..Len(auto[1].entries) : auto[1].entries[i] \in Accounts

\* a complete bulk request whose second account is unknown reaches an idle
\* server: 404, and nothing has started
C33_Witness ==
  /\ arg.fn = "postBulkApply"
  /\ ~arg.busy
  /\ arg.body.accounts = <<"Dad", "Ghost">>
  /\ ~MissingField(arg)
  /\ lastCode = HttpNotFound
  /\ ~running
  /\ auto[1] = IdleAuto

\* the `report` events of a request, in the order written
Reports(r) == SelectSeq(stream[r], LAMBDA e : e.type = "report")

C35_IdleMeansNoSession ==
  /\ [](~running => openSessions = {})
  /\ [][(running /\ ~running') =>
          /\ openSessions = {}
          /\ openSessions' = {}
          /\ \E r \in Reqs : auto[r].pc = "returned" /\ auto'[r].pc = "idle"]_vars

\* an automation that had opened a session is over: the flag is clear and no
\* session is left
C35_Witness ==
  /\ ~running
  /\ tornDown
  /\ lastCode = HttpOk
  /\ openSessions = {}
  /\ \A r \in Reqs : auto[r].pc = "idle"

\* C36: every bulk-apply request that the web UI allows to be submitted (at
\* least one selected account, a quantity, and for every selected account a
\* 4-digit per-account PIN or a 4-digit default PIN) passes the server's
\* request validation when no request is in flight and all accounts exist:
\* it is never answered with 400.
C36_UIRequestPassesValidation ==
  (arg.fn = "handleBulkApply" /\ lastCode # CallCode(arg)) => lastCode # HttpBadRequest

\* no name occurs twice in the sequence
NoRepeat(names) == \A i, j \in 1..Len(names) : names[i] = names[j] => i = j

\* the last account_status event of the stream for the account
LastStatusOf(r, account) ==
  LET at == {i \in 1..Len(stream[r]) : IsStatus(stream[r][i]) /\ stream[r][i].account = account}
  IN stream[r][CHOOSE i \in at : \A j \in at : j <= i]

\* C37: when the web UI has received `done` for a bulk batch (of distinct
\* account names, as the dialog selects them), its status list holds exactly
\* one entry per selected account, in the order of the selection, each equal
\* to the last account_status the server emitted for that account, and no
\* account is still shown as pending or running.
C37_UIStatusesFinal ==
  \A r \in Reqs :
    (BulkReturned(r) /\ NoRepeat(auto[r].entries)) =>
      LET selected == auto[r].entries
          ui == BulkStatuses(InitialStatuses(selected), stream[r])
      IN /\ stream[r][Len(stream[r])].type = "done"
         /\ Len(ui) = Len(selected)
         /\ \A i \in 1..Len(selected) :
              /\ ui[i].account = selected[i]
              /\ ui[i] = StatusData(LastStatusOf(r, selected[i]))
              /\ ui[i].status \notin {"pending", "running"}
              /\ ui[i].status \in TerminalStatuses

\* a batch of two accounts is over: the list shows the failed login of the
\* first and the second as already applied
C37_Witness ==
  \E r \in Reqs :
    /\ BulkReturned(r)
    /\ auto[r].entries = <<"Dada", "Mom">>
    /\ LET ui == BulkStatuses(InitialStatuses(auto[r].entries), stream[r])
       IN /\ Len(ui) = 2
          /\ ui[1].status = "login_failed"
          /\ ui[2].status = "already_applied"

\* the claim's condition on a response: a GET under /api/ whose body is a
\* JSON array of more than 5 elements whose first element has a name and a
\* code
Qualifying(resp) ==
  /\ resp.url = "https://webbackend.cdsc.com.np/api/meroShare/capital/"
  /\ resp.method = "GET"
  /\ resp.body.json
  /\ resp.body.array
  /\ Len(resp.body.items) > 5
  /\ resp.body.items[1].name # ""
  /\ resp.body.items[1].code # 0

\* the entries of the qualifying responses among `responses`, one response
\* after the other
RECURSIVE QualifyingEntries(_)
QualifyingEntries(responses) ==
  IF responses = <<>> THEN <<>>
  ELSE (IF Qualifying(Head(responses))
        THEN [i \in 1..Len(Head(responses).body.items) |->
                [id |-> Head(responses).body.items[i].id,
                 code |-> Str(Head(responses).body.items[i].code),
                 name |-> Head(responses).body.items[i].name]]
        ELSE <<>>) \o QualifyingEntries(Tail(responses))

\* every array the portal delivered under /api/ has 5 elements or fewer
SmallListsOnly(responses) ==
  \A i \in 1..Len(responses) :
    (responses[i].body.json /\ responses[i].body.array) => Len(responses[i].body.items) <= 5

\* C38: the list captureDPList returns holds the entries (code as a string)
\* of every qualifying response received during the capture window, each
\* response's entries together and in the order the handler finished the
\* responses, and nothing else; a response that is not a GET under /api/
\* with a JSON array of more than 5 elements whose first element has a name
\* and a code adds nothing. When every list delivered has 5 or fewer
\* participants the captured list is empty, and with an empty list the login
\* fails with the participant-not-found error and goes no further.
C38_CaptureQualifyingOnly ==
  (arg.fn = "captureDPList" /\ res.fn = "captureDPList") =>
    LET responses == arg.responses
        handled == [k \in 1..Len(responses) |-> responses[res.order[k]]]
        s == stream[1]
    IN /\ res.dpList = QualifyingEntries(handled)
       /\ (\A i \in 1..Len(responses) : ~Qualifying(responses[i])) => res.dpList = <<>>
       /\ SmallListsOnly(responses) => res.dpList = <<>>
       /\ res.dpList = <<>> =>
            /\ auto[1].pc = "closing"
            /\ IsDPNotFound(s[Len(s)])
            /\ NotFoundArgs(s[Len(s)]) = <<"11700", <<>>>>
            /\ \A i \in 1..Len(s) : s[i].msg \notin {"DP resolved", "Logging in"}

\* two qualifying responses and the list is their concatenation, second
\* response first; and a list of five alone ends the login with not-found
C38_Witness ==
  /\ arg.fn = "captureDPList"
  /\ res.fn = "captureDPList"
  /\ \/ /\ Len(arg.responses) = 2
        /\ Qualifying(arg.responses[1]) /\ Qualifying(arg.responses[2])
        /\ arg.responses[1] # arg.responses[2]
        /\ res.order = <<2, 1>>
        /\ Len(res.dpList) = 12
        /\ res.dpList[1].id = arg.responses[2].body.items[1].id
        /\ auto[1].pc = "login2"
     \/ /\ arg.responses = <<ApiGet(<<R1, R2, R5, R5, R5>>)>>
        /\ res.dpList = <<>>
        /\ auto[1].pc = "closing"
        /\ IsDPNotFound(stream[1][Len(stream[1])])

====
